---- MODULE Spec2Model ----
(***************************************************************************)
(* The timeline service of the homeserver (service/rooms/timeline/mod.rs)  *)
(* as a state machine: concurrent tasks run build_and_append_pdu,          *)
(* append_incoming_pdu and backfill_if_required / backfill_pdu over the    *)
(* per-room gates, the global counter and the room tables.                 *)
(***************************************************************************)
EXTENDS Integers, Sequences, FiniteSets, TLC

(* ------------------------------ bounds --------------------------------- *)

\* Number of events (PDUs) that are ever authored, locally or remotely.
MaxEvents == 3

\* Longest backfill response.
MaxBatch == 2

\* The small counts compared with each other, next to u64::MAX: 0..MaxCount.
MaxCount == 2

\* Most entries the users table of a room's power levels has.
MaxMods == 2

\* Read markers and receipts are set while the global counter is below this.
MaxReadCounter == 5

(* ------------------------- program constants --------------------------- *)

\* u64::MAX (timeline/mod.rs:1185), scaled to the widest integer TLC has; the
\* counter stays far below it, so `max - count` never wraps.
U64Max == 2147483647

\* UInt::MAX of the depth field (2^53 - 1; timeline/mod.rs:646), scaled to
\* TLC's integers so that UIntMax + 1 can still be written.
UIntMax == 1073741823

\* prev_events keeps at most this many forward extremities.
PrevLimit == 20

\* `if count < 2`: the local members that must remain in the administrative
\* room besides the one leaving or banned.
MinOtherAdmins == 2

Tasks == {"t1", "t2"}

\* Rooms are named by their short room id (never 0).
Rooms == {1, 2}

\* The local users.
Users == {"u1", "u2"}

\* The sender of a federation event.
RemoteUser == "remote"

AllUsers == Users \cup {RemoteUser}

\* Rooms that servers other than this one take part in: room 1 is federated,
\* room 2 has local members only (no incoming event, no backfill candidate).
FederatedRooms == {1}

NoTask == "none"

\* No state key (the event is not a state event).
NoUser == "none"

(* ------------------------- positions (PduCount) ------------------------ *)

Normal(n) == [kind |-> "Normal", n |-> n]

Backfilled(n) == [kind |-> "Backfilled", n |-> n]

\* PduCount::min()
PduCountMin == Backfilled(U64Max)

\* A buggy ordering: Backfilled values compared in the same sense as Normal.
PduCountLessSameSense(a, b) ==
    IF a.kind = b.kind THEN a.n < b.n
    ELSE a.kind = "Backfilled"

\* Ord for PduCount: Normal by n, Backfilled reversed, Backfilled < Normal.
PduCountLess(a, b) ==
    CASE a.kind = "Normal" /\ b.kind = "Normal" -> a.n < b.n
      [] a.kind = "Backfilled" /\ b.kind = "Backfilled" -> b.n < a.n
      [] a.kind = "Backfilled" /\ b.kind = "Normal" -> TRUE
      [] OTHER -> FALSE

(* ------------------------------ pdu ids -------------------------------- *)

\* pdu_id of a live event: shortroomid ++ count (big endian u64 each).
NormalPduId(shortroomid, count) == <<shortroomid, count>>

\* A buggy backfill key that stores the counter itself.
BackfillPduIdAscending(shortroomid, count) == <<shortroomid, 0, count>>

\* pdu_id of a backfilled event: shortroomid ++ 0 ++ (u64::MAX - count).
BackfillPduId(shortroomid, count) == <<shortroomid, 0, U64Max - count>>

\* The position a pdu id stands for.
PduCountOf(id) ==
    IF Len(id) = 3 /\ id[2] = 0 THEN Backfilled(U64Max - id[3])
    ELSE Normal(id[Len(id)])

RoomOfPduId(id) == id[1]

\* Byte order of two keys made of fixed-width big endian words: the first
\* differing word decides, a proper prefix sorts first.
RECURSIVE KeyLessFrom(_, _, _)
KeyLessFrom(a, b, i) ==
    IF i > Len(a) THEN i <= Len(b)
    ELSE IF i > Len(b) THEN FALSE
    ELSE IF a[i] # b[i] THEN a[i] < b[i]
    ELSE KeyLessFrom(a, b, i + 1)

KeyLess(a, b) == KeyLessFrom(a, b, 1)

(* ------------------------------- state --------------------------------- *)

VARIABLES
    stateGate,      \* rooms.state.mutex: the task holding each room's state gate
    insertGate,     \* timeline.mutex_insert: the holder of each room's insertion gate
    fedGate,        \* event_handler.mutex_federation: holder per room
    counter,        \* globals: the global counter behind next_count
    pdus,           \* every PDU authored so far, by event id (1..Len(pdus))
    pduid_pdu,      \* timeline store: pdu id -> event
    eventid_pduid,  \* event -> pdu id, for events in the timeline
    shorteventid_shortstatehash,  \* event -> snapshot recorded for it
    roomid_shortstatehash,        \* room -> current state snapshot
    roomid_pduleaves,             \* room -> forward extremities
    referenced,     \* pdu_metadata: events marked as referenced
    softfailed,     \* events that took the soft-fail branch
    roomuserid_privateread,       \* <<room, user>> -> private read marker
    notificationcount,            \* <<room, user>> -> unread notifications
    highlightcount,               \* <<room, user>> -> unread highlights
    pushJobs,       \* sending: <<pdu id, user>> push jobs dispatched
    tk,             \* per task: position in its operation and its locals
    eventid_shorteventid,  \* short: the events that were given a short event id
    pduid_json,     \* timeline store: pdu id -> the stored form of the event
    roomuserid_joined,     \* state_cache: room -> the joined members
    bf,             \* one backfill_if_required call followed through its loop
    replaced,       \* pdu id -> how many times replace_pdu overwrote it
    tokenids,       \* search: the index entries <<room, pdu id, body>>
    aps,            \* the appservice loop of one append_pdu call, turn by turn
    fd,             \* the federation dispatch of one build_and_append_pdu
    sx,             \* one set_forward_extremities call, key by key, and a reader
    ua,             \* uiaa: the stored sessions of one user and device, and the last try_auth
    rm,             \* read_marker: one user's markers in one room, and the last request
    cr,             \* one create_hash_and_sign_event call, statement by statement
    ca, cb, cc,     \* three positions under comparison
    cres            \* the outcome of comparing them

gateVars == <<stateGate, insertGate, fedGate>>

storeVars == <<pdus, pduid_pdu, eventid_pduid, shorteventid_shortstatehash,
               roomid_shortstatehash, roomid_pduleaves, referenced, softfailed>>

userVars == <<roomuserid_privateread, notificationcount, highlightcount, pushJobs>>

cmpVars == <<ca, cb, cc, cres>>

mainVars == <<stateGate, insertGate, fedGate, counter, pdus, pduid_pdu,
              eventid_pduid, shorteventid_shortstatehash, roomid_shortstatehash,
              roomid_pduleaves, referenced, softfailed, roomuserid_privateread,
              notificationcount, highlightcount, pushJobs, tk>>

extVars == <<eventid_shorteventid, pduid_json, roomuserid_joined>>

sideVars == <<aps, cr, fd, sx, ua, rm>>

auxVars == <<bf, replaced, tokenids, sideVars>>

vars == <<mainVars, cmpVars, extVars, auxVars>>

\* A task outside any operation.
IdleTask ==
    [pc |-> "idle", op |-> "none", room |-> 0, ev |-> 0, statehashid |-> {},
     batch |-> <<>>]

Events == 1..Len(pdus)

\* The empty map.
EmptyMap == [x \in {} |-> 0]

\* map with key k set to v (insert or overwrite).
Put(map, k, v) == [x \in DOMAIN map \cup {k} |-> IF x = k THEN v ELSE map[x]]

\* globals.server_user, the server's own service account.
ServerUser == "server"

\* admin::Service::get_admin_room: the administrative room, which is local.
AdminRoom == 2

\* server_is_ours(user.server_name())
ServerIsOurs(u) == u # RemoteUser

\* The joined members of the rooms when the service starts: the federated
\* room holds the local users and a remote one, the administrative room the
\* service account and the first administrator.
InitialMembers(r) == IF r = AdminRoom THEN {ServerUser, "u1"} ELSE AllUsers

\* No backfill_if_required call is being followed.
NoBackfillCall == [pc |-> "none"]

\* No create_hash_and_sign_event call is being followed.
NoCreateCall == [pc |-> "none"]

\* No appservice loop is being followed.
NoAppserviceLoop == [pc |-> "none"]

\* No uiaa session is being followed.
NoUiaa == [pc |-> "none"]

\* No read marker request is being followed.
NoReadMarker == [pc |-> "none"]

\* No set_forward_extremities call is being followed.
NoExtremityWrite == [pc |-> "none"]

\* No federation dispatch is being followed.
NoDispatch == [pc |-> "none"]

\* No call is being followed step by step outside the pipelines.
SideInit ==
    /\ aps = NoAppserviceLoop /\ cr = NoCreateCall /\ fd = NoDispatch
    /\ sx = NoExtremityWrite /\ ua = NoUiaa /\ rm = NoReadMarker

\* No comparison made yet.
NoCmp == [done |-> FALSE, ab |-> FALSE, ba |-> FALSE, bc |-> FALSE, ac |-> FALSE]

MainInit ==
    /\ stateGate = [r \in Rooms |-> NoTask]
    /\ insertGate = [r \in Rooms |-> NoTask]
    /\ fedGate = [r \in Rooms |-> NoTask]
    /\ counter = 0
    /\ pdus = <<>>
    /\ pduid_pdu = EmptyMap
    /\ eventid_pduid = EmptyMap
    /\ shorteventid_shortstatehash = EmptyMap
    /\ roomid_shortstatehash = [r \in Rooms |-> {}]
    /\ roomid_pduleaves = [r \in Rooms |-> {}]
    /\ referenced = {}
    /\ softfailed = {}
    /\ roomuserid_privateread = [k \in Rooms \X AllUsers |-> 0]
    /\ notificationcount = [k \in Rooms \X AllUsers |-> 0]
    /\ highlightcount = [k \in Rooms \X AllUsers |-> 0]
    /\ pushJobs = {}
    /\ tk = [t \in Tasks |-> IdleTask]
    /\ eventid_shorteventid = {}
    /\ pduid_json = EmptyMap
    /\ roomuserid_joined = [r \in Rooms |-> InitialMembers(r)]
    /\ tokenids = {}

Init ==
    /\ MainInit
    /\ bf = NoBackfillCall
    /\ replaced = EmptyMap
    /\ SideInit
    /\ ca = PduCountMin /\ cb = PduCountMin /\ cc = PduCountMin
    /\ cres = NoCmp

(* ------------------------------ helpers -------------------------------- *)

\* A counter that hands out its current value without advancing.
NextCountStuck(c) == c

\* globals.next_count: the storage engine's atomic increment; the new value.
NextCount(c) == c + 1

\* A call site that accepts no proof of the gate.
NoLockParam(t, r) == TRUE

\* The `state_lock: &RoomMutexGuard` parameter of build_and_append_pdu and
\* append_incoming_pdu: the call needs the caller to hold the room's state gate.
StateLockParam(t, r) == stateGate[r] = t

\* get_forward_extremities(..).into_iter().take(20): what the set's iteration
\* may yield as prev_events.
TakePrev(leaves) ==
    IF Cardinality(leaves) <= PrevLimit THEN {leaves}
    ELSE {S \in SUBSET leaves : Cardinality(S) = PrevLimit}

\* append_to_state's new snapshot: a state event takes its (type, state key)
\* slot, replacing the event that held it; any other event leaves the snapshot
\* as it is. Membership events are the state events here, keyed by their target.
FoldState(all, snapshot, e) ==
    IF all[e].state_key = NoUser THEN snapshot
    ELSE {x \in snapshot : all[x].state_key # all[e].state_key} \cup {e}

\* Data::set_event_state left out.
SetEventStateSkipped(map, e, snapshot) == map

\* state.set_event_state: the snapshot recorded for an event.
SetEventState(map, e, snapshot) == Put(map, e, snapshot)

\* The room's pointer moved to the new snapshot as soon as it is computed.
RoomStateAtAppendToState(map, r, statehashid) == [map EXCEPT ![r] = statehashid]

\* state.append_to_state(&pdu) returns the id of the new snapshot; the room's
\* pointer stays where it is until set_room_state.
RoomStateAfterAppendToState(map, r, statehashid) == map

\* Data::set_room_state left out.
SetRoomStateSkipped(map, r, statehashid) == map

\* Data::set_room_state: the room's current snapshot.
SetRoomState(map, r, statehashid) == [map EXCEPT ![r] = statehashid]

\* The leaves a local append keeps when it forgets to drop the old ones.
LocalLeavesKeepOld(old, e) == old \cup {e}

\* vec![pdu.event_id]: the new event replaces all the leaves it references.
LocalLeaves(old, e) == {e}

\* Data::set_forward_extremities: every old key removed, the new ones inserted.
SetForwardExtremities(map, r, event_ids) == [map EXCEPT ![r] = event_ids]

\* Events of a room that went through the incoming or local pipeline, or
\* were backfilled.
Handled(r) ==
    {e \in Events : pdus[e].room = r /\ (e \in DOMAIN eventid_pduid \/ e \in softfailed)}

\* The extremities the event handler passes to append_incoming_pdu: the
\* events with no known child, the new one among them unless soft-failed.
IncomingLeaves(r, e, prev, soft) ==
    (roomid_pduleaves[r] \ prev) \cup (IF soft THEN {} ELSE {e})

\* The state the event handler resolved for an incoming event from the
\* sending server's view: the room's current one, or that of an older point of
\* the graph (the empty one).
ResolvedStates(r) == {roomid_shortstatehash[r], {}}

\* state_cache.active_local_users_in_room
ActiveLocalUsers(r) == IF r = 1 THEN Users ELSE {"u1"}

\* push_target of append_pdu: the active local users, and the target of a
\* membership event.
PushTarget(e) ==
    ActiveLocalUsers(pdus[e].room)
        \cup (IF pdus[e].kind = "member" /\ pdus[e].state_key # NoUser
              THEN {pdus[e].state_key} ELSE {})

\* The loop over push_target without its `continue`.
PushRecipientsWithSender(push_target, sender) == push_target

\* The users the loop over push_target evaluates: all but the sender.
PushRecipients(push_target, sender) == push_target \ {sender}

\* pusher.get_actions under the users' push rules: u1's rules notify and
\* highlight, every other user's rules notify.
GetActions(u) == IF u = "u1" THEN {"notify", "highlight"} ELSE {"notify"}

\* The `notifies` list append_pdu builds for an event.
Notifies(e) ==
    {u \in PushRecipients(PushTarget(e), pdus[e].sender) : "notify" \in GetActions(u)}

\* The `highlights` list append_pdu builds for an event.
Highlights(e) ==
    {u \in PushRecipients(PushTarget(e), pdus[e].sender) : "highlight" \in GetActions(u)}

\* The local events composed: a message, or a membership event about u2.
KindTargets == {<<"message", NoUser>>, <<"member", "u2">>}

\* The local user who composes events: an active member of room 1, not of
\* room 2, and the target of the membership events.
LocalSenders == {"u2"}

\* increment_notification_counts for one counter table.
Bump(map, r, us) ==
    [k \in DOMAIN map |-> IF k[1] = r /\ k[2] \in us THEN map[k] + 1 ELSE map[k]]

\* A PDU as the model keeps it: its room, prev_events, sender, type and state
\* key, and how it first reached this server ("local", "incoming", or
\* "backfill" with the pdu id of the first_pdu its response was asked to
\* precede).
Pdu(r, prev, sender, kind, state_key, via, before) ==
    [room |-> r, prev |-> prev, sender |-> sender, kind |-> kind,
     state_key |-> state_key, via |-> via, before |-> before,
     membership |-> IF kind = "member" THEN "join" ELSE "none",
     redacts |-> 0, auth_check |-> "true", can_redact |-> TRUE,
     forbidden |-> "none"]

\* The content of an event as it was composed or received: it has a body.
OriginalContent == "body"

\* A redaction that undoes an earlier one.
RedactContentAgain(content) == IF content = "stripped" THEN "body" ELSE "stripped"

\* PduEvent::redact: the content stripped to what the room version keeps;
\* stripping what is stripped already changes nothing.
RedactContent(content) == "stripped"

\* replace_pdu: the stored form under pdu_id is overwritten, the id stays.
ReplacePdu(json, pdu_id, content) == [json EXCEPT ![pdu_id] = content]

\* redact_pdu: the target, if it is a timeline event, is replaced by its
\* redacted form under the id it has; an unknown target is left alone.
RedactPdu(json, event_id) ==
    IF event_id \in DOMAIN eventid_pduid
    THEN ReplacePdu(json, eventid_pduid[event_id],
                    RedactContent(json[eventid_pduid[event_id]]))
    ELSE json

\* The replace_pdu calls counted per pdu id.
CountReplace(map, event_id) ==
    IF event_id \in DOMAIN eventid_pduid
    THEN Put(map, eventid_pduid[event_id],
             IF eventid_pduid[event_id] \in DOMAIN map
             THEN map[eventid_pduid[event_id]] + 1 ELSE 1)
    ELSE map

\* ExtractBody: the body of a content, if it has one.
HasBody(content) == content = OriginalContent

\* search.index_pdu
IndexPdu(index, shortroomid, pdu_id, body) == index \cup {<<shortroomid, pdu_id, body>>}

\* search.deindex_pdu
DeindexPdu(index, shortroomid, pdu_id, body) == index \ {<<shortroomid, pdu_id, body>>}

\* The RoomMessage arm of append_pdu and the tail of backfill_pdu: a message
\* with a body is indexed under the pdu id it was stored at.
IndexMessage(index, e, pdu_id) ==
    IF pdus[e].kind = "message" /\ HasBody(OriginalContent)
    THEN IndexPdu(index, pdus[e].room, pdu_id, OriginalContent)
    ELSE index

\* The head of redact_pdu: the body of the stored target, if it has one, is
\* taken out of the index, under the shortroomid of the redaction's room.
DeindexTarget(index, shortroomid, event_id) ==
    IF event_id \in DOMAIN eventid_pduid /\ HasBody(pduid_json[eventid_pduid[event_id]])
    THEN DeindexPdu(index, shortroomid, eventid_pduid[event_id],
                    pduid_json[eventid_pduid[event_id]])
    ELSE index

\* state_cache.update_membership for a membership event: a join adds the
\* target to the joined members, a leave or a ban removes it.
UpdateMembership(map, e) ==
    IF pdus[e].kind # "member" THEN map
    ELSE [map EXCEPT ![pdus[e].room] =
             IF pdus[e].membership = "join" THEN @ \cup {pdus[e].state_key}
             ELSE @ \ {pdus[e].state_key}]


(* ------------------------- callers of the pipeline ---------------------- *)

\* A request handler or the event handler sets out to append to room r.
Call(t) ==
    /\ tk[t].pc = "idle"
    /\ Len(pdus) + Cardinality({u \in Tasks : tk[u].pc = "call"}) < MaxEvents
    /\ \E r \in Rooms :
          tk' = [tk EXCEPT ![t] = [IdleTask EXCEPT !.pc = "call", !.room = r]]
    /\ UNCHANGED <<gateVars, counter, storeVars, userVars, cmpVars, extVars, auxVars>>

\* MutexMap::lock on the state gate: waits until the room's gate is free.
StateMutexLock(t) ==
    /\ tk[t].pc = "call"
    /\ stateGate[tk[t].room] = NoTask
    /\ stateGate' = [stateGate EXCEPT ![tk[t].room] = t]
    /\ UNCHANGED <<insertGate, fedGate, counter, storeVars, userVars, tk, cmpVars, extVars, auxVars>>

\* The call returns and the caller drops its guard (if it holds one).
CallerUnlock(t) ==
    /\ stateGate' = [stateGate EXCEPT ![tk[t].room] = IF @ = t THEN NoTask ELSE @]
    /\ tk' = [tk EXCEPT ![t] = IdleTask]

(* ------------------------------ append_pdu ------------------------------ *)

\* The head of append_pdu: mark_as_referenced and set_forward_extremities,
\* up to the wait for the insertion gate.
AppendPduLeaves(r, prev, leaves) ==
    /\ referenced' = referenced \cup prev
    /\ roomid_pduleaves' = SetForwardExtremities(roomid_pduleaves, r, leaves)

\* self.mutex_insert.lock(&pdu.room_id).await
AppendPduLockInsert(t) ==
    /\ tk[t].pc = "ap_lock"
    /\ insertGate[tk[t].room] = NoTask
    /\ insertGate' = [insertGate EXCEPT ![tk[t].room] = t]
    /\ tk' = [tk EXCEPT ![t] = [@ EXCEPT !.pc = "ap_insert"]]
    /\ UNCHANGED <<stateGate, fedGate, counter, storeVars, userVars, cmpVars, extVars, auxVars>>

\* append_pdu keeps the insertion gate through its fan-out.
KeepInsertLock(gate, r, t) == gate

\* drop(insert_lock) of append_pdu.
DropInsertLock(gate, r, t) == [gate EXCEPT ![r] = IF @ = t THEN NoTask ELSE @]

\* The PDU is keyed by the count given to the read marker.
CountOfReadMarker(count1, count2) == count1

\* pdu_id.extend_from_slice(&count2.to_be_bytes())
CountOfPduId(count1, count2) == count2

\* Under the insertion gate: count1, the sender's private read marker (which
\* takes a count of its own), the reset of the sender's notification
\* counters, count2, self.db.append_pdu under the id made of count2, and
\* drop(insert_lock).
AppendPduInsert(t) ==
    LET r == tk[t].room
        sender == pdus[tk[t].ev].sender
        count1 == NextCount(counter)
        lastupdate == NextCount(count1)
        count2 == NextCount(lastupdate)
        pdu_id == NormalPduId(r, CountOfPduId(count1, count2))
    IN  /\ tk[t].pc = "ap_insert"
        /\ roomuserid_privateread' =
              [roomuserid_privateread EXCEPT ![<<r, sender>>] = count1]
        /\ notificationcount' = [notificationcount EXCEPT ![<<r, sender>>] = 0]
        /\ highlightcount' = [highlightcount EXCEPT ![<<r, sender>>] = 0]
        /\ counter' = count2
        /\ pduid_pdu' = Put(pduid_pdu, pdu_id, tk[t].ev)
        /\ pduid_json' = Put(pduid_json, pdu_id, OriginalContent)
        /\ eventid_pduid' = Put(eventid_pduid, tk[t].ev, pdu_id)
        /\ insertGate' = DropInsertLock(insertGate, r, t)
        /\ tk' = [tk EXCEPT ![t] = [@ EXCEPT !.pc = "ap_fanout"]]
        /\ UNCHANGED <<stateGate, fedGate, pdus, shorteventid_shortstatehash,
                       roomid_shortstatehash, roomid_pduleaves, referenced,
                       softfailed, pushJobs, cmpVars, eventid_shorteventid,
                       roomuserid_joined, auxVars>>

\* The push loop: each recipient's rules are evaluated, the notified and
\* highlighted users are counted, and each recipient's push key gets a job.
AppendPduPush(t) ==
    LET e == tk[t].ev
        r == tk[t].room
        pdu_id == eventid_pduid[e]
        recipients == PushRecipients(PushTarget(e), pdus[e].sender)
    IN  /\ notificationcount' = Bump(notificationcount, r, Notifies(e))
        /\ highlightcount' = Bump(highlightcount, r, Highlights(e))
        /\ pushJobs' = pushJobs \cup {<<pdu_id, u>> : u \in recipients}

(* -------------------------- build_and_append_pdu ------------------------ *)

\* What state_res::auth_check can yield: Ok(true), Ok(false), Err.
AuthResults == {"true", "false", "error"}

\* An auth check that lets an erring check through.
AuthCheckFailsOpen(auth) == auth # "false"

\* `.map_err(..)?` and `if !auth_check { return Err(..) }`: only Ok(true)
\* lets create_hash_and_sign_event go on.
AuthCheckPasses(auth) == auth = "true"

\* create_hash_and_sign_event with the auth check passing (the event is built
\* on the room's extremities and signed), then append_to_state (the event's
\* state recorded, the snapshot holding the event computed) and the head of
\* append_pdu.
BuildAndAppendPdu(t) ==
    LET r == tk[t].room
        e == Len(pdus) + 1
    IN  /\ tk[t].pc = "call"
        /\ StateLockParam(t, r)
        /\ \E sender \in LocalSenders, kt \in KindTargets,
              prev \in TakePrev(roomid_pduleaves[r]), auth \in AuthResults :
              /\ AuthCheckPasses(auth)
              /\ pdus' = Append(pdus, [Pdu(r, prev, sender, kt[1], kt[2], "local", <<>>)
                                          EXCEPT !.auth_check = auth])
              /\ tk' = [tk EXCEPT ![t] =
                           [@ EXCEPT !.pc = "ap_lock", !.op = "local", !.ev = e,
                                     !.statehashid =
                                         FoldState(pdus', roomid_shortstatehash[r], e)]]
              /\ AppendPduLeaves(r, prev, LocalLeaves(roomid_pduleaves[r], e))
              /\ roomid_shortstatehash' =
                    RoomStateAfterAppendToState(roomid_shortstatehash, r,
                        FoldState(pdus', roomid_shortstatehash[r], e))
        /\ eventid_shorteventid' = eventid_shorteventid \cup {e}
        /\ shorteventid_shortstatehash' =
              SetEventState(shorteventid_shortstatehash, e, roomid_shortstatehash[r])
        /\ UNCHANGED <<gateVars, counter, pduid_pdu, eventid_pduid,
                       softfailed, userVars, cmpVars,
                       pduid_json, roomuserid_joined, auxVars>>

\* create_hash_and_sign_event with the auth check answering false or failing:
\* Forbidden before anything is signed or written.
CreateForbidden(t) ==
    /\ tk[t].pc = "call"
    /\ StateLockParam(t, tk[t].room)
    /\ \E auth \in AuthResults : ~AuthCheckPasses(auth)
    /\ tk' = [tk EXCEPT ![t] = [@ EXCEPT !.pc = "forbidden"]]
    /\ UNCHANGED <<gateVars, counter, storeVars, userVars, cmpVars, extVars, auxVars>>

\* The caller is handed the Forbidden of the auth check and drops its guard.
ForbiddenReturned(t) ==
    /\ tk[t].pc = "forbidden"
    /\ CallerUnlock(t)
    /\ UNCHANGED <<insertGate, fedGate, counter, storeVars, userVars, cmpVars, extVars, auxVars>>

\* The tail of append_pdu, then set_room_state and the dispatch to the room's
\* servers; Ok(event_id).
BuildAndAppendPduFinish(t) ==
    /\ tk[t].pc = "ap_fanout" /\ tk[t].op = "local"
    /\ pdus[tk[t].ev].kind # "redaction"
    /\ AppendPduPush(t)
    /\ roomid_shortstatehash' =
          SetRoomState(roomid_shortstatehash, tk[t].room, tk[t].statehashid)
    /\ roomuserid_joined' = UpdateMembership(roomuserid_joined, tk[t].ev)
    /\ tokenids' = IndexMessage(tokenids, tk[t].ev, eventid_pduid[tk[t].ev])
    /\ CallerUnlock(t)
    /\ UNCHANGED <<insertGate, fedGate, counter, pdus, pduid_pdu, eventid_pduid,
                   shorteventid_shortstatehash, roomid_pduleaves, referenced,
                   softfailed, roomuserid_privateread, cmpVars,
                   eventid_shorteventid, pduid_json, bf, replaced, sideVars>>

(* ------------------- guards of the administrative room ----------------- *)

\* What is composed in the administrative room besides messages and joins
\* of u2: an encryption event, and membership events about the service
\* account and the local users.
AdminEvents ==
    {<<"encryption", NoUser, "none">>}
        \cup {<<"member", u, m>> : u \in Users \cup {ServerUser}, m \in {"join", "leave", "ban"}}

\* Who sends a membership event of the administrative room: the users join
\* and leave by themselves, u1 acts on the others.
AdminSender(target, membership) ==
    IF target \in Users /\ membership \in {"join", "leave"} THEN target ELSE "u1"

\* The count with the target left in.
OtherLocalMembersWithTarget(members, target) ==
    Cardinality({m \in members : ServerIsOurs(m)})

\* room_members(room_id).filter(|m| server_is_ours(m.server_name()) && m !=
\* target).count()
OtherLocalMembers(members, target) ==
    Cardinality({m \in members : ServerIsOurs(m) /\ m # target})

\* The guards of build_and_append_pdu for the administrative room trip: an
\* encryption event; a leave or a ban of the service account, or one that
\* leaves fewer than two other local members.
AdminGuardTrips(r, kind, membership, target) ==
    /\ r = AdminRoom
    /\ \/ kind = "encryption"
       \/ /\ kind = "member"
          /\ membership \in {"leave", "ban"}
          /\ \/ target = ServerUser
             \/ OtherLocalMembers(roomuserid_joined[r], target) < MinOtherAdmins

\* build_and_append_pdu in the administrative room with no guard tripping:
\* append_to_state and the head of append_pdu, as for any event.
BuildAndAppendAdmin(t) ==
    LET r == tk[t].room
        e == Len(pdus) + 1
    IN  /\ tk[t].pc = "call"
        /\ r = AdminRoom
        /\ StateLockParam(t, r)
        /\ \E ev \in AdminEvents, prev \in TakePrev(roomid_pduleaves[r]),
              auth \in AuthResults :
              /\ AuthCheckPasses(auth)
              /\ ~AdminGuardTrips(r, ev[1], ev[3], ev[2])
              /\ pdus' = Append(pdus, [Pdu(r, prev, AdminSender(ev[2], ev[3]), ev[1], ev[2],
                                              "local", <<>>)
                                          EXCEPT !.membership = ev[3], !.auth_check = auth])
              /\ tk' = [tk EXCEPT ![t] =
                           [@ EXCEPT !.pc = "ap_lock", !.op = "local", !.ev = e,
                                     !.statehashid =
                                         FoldState(pdus', roomid_shortstatehash[r], e)]]
              /\ AppendPduLeaves(r, prev, LocalLeaves(roomid_pduleaves[r], e))
        /\ eventid_shorteventid' = eventid_shorteventid \cup {e}
        /\ shorteventid_shortstatehash' =
              SetEventState(shorteventid_shortstatehash, e, roomid_shortstatehash[r])
        /\ UNCHANGED <<gateVars, counter, pduid_pdu, eventid_pduid,
                       roomid_shortstatehash, softfailed, userVars, cmpVars,
                       pduid_json, roomuserid_joined, auxVars>>

\* build_and_append_pdu in the administrative room with a guard tripping:
\* create_hash_and_sign_event has signed the event and given it a short id,
\* then Forbidden is returned.
AdminGuardForbidden(t) ==
    LET r == tk[t].room
        e == Len(pdus) + 1
    IN  /\ tk[t].pc = "call"
        /\ r = AdminRoom
        /\ StateLockParam(t, r)
        /\ \E ev \in AdminEvents, prev \in TakePrev(roomid_pduleaves[r]),
              auth \in AuthResults :
              /\ AuthCheckPasses(auth)
              /\ AdminGuardTrips(r, ev[1], ev[3], ev[2])
              /\ pdus' = Append(pdus, [Pdu(r, prev, AdminSender(ev[2], ev[3]), ev[1], ev[2],
                                              "local", <<>>)
                                          EXCEPT !.membership = ev[3], !.auth_check = auth,
                                                 !.forbidden = "admin"])
        /\ eventid_shorteventid' = eventid_shorteventid \cup {e}
        /\ CallerUnlock(t)
        /\ UNCHANGED <<insertGate, fedGate, counter, pduid_pdu, eventid_pduid,
                       shorteventid_shortstatehash, roomid_shortstatehash,
                       roomid_pduleaves, referenced, softfailed, userVars, cmpVars,
                       pduid_json, roomuserid_joined, auxVars>>

(* ------------------------------ redactions ------------------------------ *)

\* The events a local redaction names as its target: those of the room's
\* timeline.
RedactTargets(r) == {x \in DOMAIN eventid_pduid : pdus[x].room = r}

\* build_and_append_pdu appends a redaction whatever user_can_redact says.
RedactionRecheckSkipped(can_redact) == TRUE

\* `if !user_can_redact(..)? { return Err(Forbidden) }` of
\* build_and_append_pdu.
RedactionAllowed(can_redact) == can_redact

\* build_and_append_pdu of a redaction the sender may still send when it is
\* about to be appended: as for any event, append_to_state and the head of
\* append_pdu.
BuildAndAppendRedaction(t) ==
    LET r == tk[t].room
        e == Len(pdus) + 1
    IN  /\ tk[t].pc = "call"
        /\ StateLockParam(t, r)
        /\ \E sender \in LocalSenders, target \in RedactTargets(r),
              prev \in TakePrev(roomid_pduleaves[r]), auth \in AuthResults,
              can_redact \in BOOLEAN :
              /\ AuthCheckPasses(auth)
              /\ RedactionAllowed(can_redact)
              /\ pdus' = Append(pdus, [Pdu(r, prev, sender, "redaction", NoUser, "local", <<>>)
                                          EXCEPT !.redacts = target, !.auth_check = auth,
                                                 !.can_redact = can_redact])
              /\ tk' = [tk EXCEPT ![t] =
                           [@ EXCEPT !.pc = "ap_lock", !.op = "local", !.ev = e,
                                     !.statehashid =
                                         FoldState(pdus', roomid_shortstatehash[r], e)]]
              /\ AppendPduLeaves(r, prev, LocalLeaves(roomid_pduleaves[r], e))
        /\ eventid_shorteventid' = eventid_shorteventid \cup {e}
        /\ shorteventid_shortstatehash' =
              SetEventState(shorteventid_shortstatehash, e, roomid_shortstatehash[r])
        /\ UNCHANGED <<gateVars, counter, pduid_pdu, eventid_pduid,
                       roomid_shortstatehash, softfailed, userVars, cmpVars,
                       pduid_json, roomuserid_joined, auxVars>>

\* build_and_append_pdu of a redaction the sender may no longer send: the
\* event was signed and given its short id by create_hash_and_sign_event,
\* then "User cannot redact this event." is returned.
RedactionForbidden(t) ==
    LET r == tk[t].room
        e == Len(pdus) + 1
    IN  /\ tk[t].pc = "call"
        /\ StateLockParam(t, r)
        /\ \E sender \in LocalSenders, target \in RedactTargets(r),
              prev \in TakePrev(roomid_pduleaves[r]), auth \in AuthResults,
              can_redact \in BOOLEAN :
              /\ AuthCheckPasses(auth)
              /\ ~RedactionAllowed(can_redact)
              /\ pdus' = Append(pdus, [Pdu(r, prev, sender, "redaction", NoUser, "local", <<>>)
                                          EXCEPT !.redacts = target, !.auth_check = auth,
                                                 !.can_redact = can_redact,
                                                 !.forbidden = "redaction"])
        /\ eventid_shorteventid' = eventid_shorteventid \cup {e}
        /\ CallerUnlock(t)
        /\ UNCHANGED <<insertGate, fedGate, counter, pduid_pdu, eventid_pduid,
                       shorteventid_shortstatehash, roomid_shortstatehash,
                       roomid_pduleaves, referenced, softfailed, userVars, cmpVars,
                       pduid_json, roomuserid_joined, auxVars>>

\* The tail of append_pdu for a redaction: the push loop, then redact_pdu
\* on the target if user_can_redact still holds (otherwise the target is
\* left as it is); then set_room_state; Ok(event_id).
BuildAndAppendRedactionFinish(t) ==
    /\ tk[t].pc = "ap_fanout" /\ tk[t].op = "local"
    /\ pdus[tk[t].ev].kind = "redaction"
    /\ AppendPduPush(t)
    /\ \E can_redact \in BOOLEAN :
          IF can_redact
          THEN /\ tokenids' = DeindexTarget(tokenids, tk[t].room, pdus[tk[t].ev].redacts)
               /\ pduid_json' = RedactPdu(pduid_json, pdus[tk[t].ev].redacts)
               /\ replaced' = CountReplace(replaced, pdus[tk[t].ev].redacts)
          ELSE UNCHANGED <<pduid_json, replaced, tokenids>>
    /\ roomid_shortstatehash' =
          SetRoomState(roomid_shortstatehash, tk[t].room, tk[t].statehashid)
    /\ CallerUnlock(t)
    /\ UNCHANGED <<insertGate, fedGate, counter, pdus, pduid_pdu, eventid_pduid,
                   shorteventid_shortstatehash, roomid_pduleaves, referenced,
                   softfailed, roomuserid_privateread, cmpVars,
                   eventid_shorteventid, roomuserid_joined, bf, sideVars>>

(* -------------------------- append_incoming_pdu ------------------------- *)

\* An incoming event that is not soft-failed: set_event_state with the state
\* the sending server resolved, then the head of append_pdu.
AppendIncomingPdu(t) ==
    LET r == tk[t].room
        e == Len(pdus) + 1
    IN  /\ tk[t].pc = "call"
        /\ r \in FederatedRooms
        /\ StateLockParam(t, r)
        /\ \E prev \in SUBSET Handled(r), state_ids \in ResolvedStates(r) :
              /\ pdus' = Append(pdus, Pdu(r, prev, RemoteUser, "message", NoUser, "incoming", <<>>))
              /\ AppendPduLeaves(r, prev, IncomingLeaves(r, e, prev, FALSE))
              /\ shorteventid_shortstatehash' =
                    SetEventState(shorteventid_shortstatehash, e, state_ids)
        /\ tk' = [tk EXCEPT ![t] = [@ EXCEPT !.pc = "ap_lock", !.op = "incoming", !.ev = e]]
        /\ eventid_shorteventid' = eventid_shorteventid \cup {e}
        /\ UNCHANGED <<gateVars, counter, pduid_pdu, eventid_pduid,
                       roomid_shortstatehash, softfailed, userVars, cmpVars,
                       pduid_json, roomuserid_joined, auxVars>>

\* The soft-fail branch going on into append_pdu's count.
SoftFailCountTaken(c) == NextCount(c)

\* `return Ok(None)` of the soft-fail branch comes before append_pdu: no
\* count is taken.
SoftFailCount(c) == c

\* A soft-failed incoming event: set_event_state, the referenced marks and
\* the extremities; Ok(None).
AppendIncomingSoftFail(t) ==
    LET r == tk[t].room
        e == Len(pdus) + 1
    IN  /\ tk[t].pc = "call"
        /\ r \in FederatedRooms
        /\ StateLockParam(t, r)
        /\ \E prev \in SUBSET Handled(r), state_ids \in ResolvedStates(r) :
              /\ pdus' = Append(pdus, Pdu(r, prev, RemoteUser, "message", NoUser, "incoming", <<>>))
              /\ AppendPduLeaves(r, prev, IncomingLeaves(r, e, prev, TRUE))
              /\ shorteventid_shortstatehash' =
                    SetEventState(shorteventid_shortstatehash, e, state_ids)
        /\ softfailed' = softfailed \cup {e}
        /\ counter' = SoftFailCount(counter)
        /\ CallerUnlock(t)
        /\ eventid_shorteventid' = eventid_shorteventid \cup {e}
        /\ UNCHANGED <<insertGate, fedGate, pduid_pdu, eventid_pduid,
                       roomid_shortstatehash, userVars, cmpVars,
                       pduid_json, roomuserid_joined, auxVars>>

\* The tail of append_pdu for an incoming event; Ok(Some(pdu_id)).
AppendIncomingFinish(t) ==
    /\ tk[t].pc = "ap_fanout" /\ tk[t].op = "incoming"
    /\ AppendPduPush(t)
    /\ roomuserid_joined' = UpdateMembership(roomuserid_joined, tk[t].ev)
    /\ tokenids' = IndexMessage(tokenids, tk[t].ev, eventid_pduid[tk[t].ev])
    /\ CallerUnlock(t)
    /\ UNCHANGED <<insertGate, fedGate, counter, storeVars, roomuserid_privateread,
                   cmpVars, eventid_shorteventid, pduid_json, bf, replaced, sideVars>>

(* --------------------- backfill_if_required, backfill_pdu --------------- *)

\* The pdu ids of a room's timeline.
RoomPduIds(r) == {id \in DOMAIN pduid_pdu : RoomOfPduId(id) = r}

\* The first key of a non-empty set of keys in the store's order.
MinPduId(ids) == CHOOSE id \in ids : \A other \in ids \ {id} : KeyLess(id, other)

\* all_pdus(room).next(): the position of the room's oldest stored event.
FirstPduCount(r) == PduCountOf(MinPduId(RoomPduIds(r)))

\* The cutoffs a caller asks about: the very first position, and the first
\* live one.
FromSet == {PduCountMin, Normal(0)}

\* The test the other way round: backfill unless the oldest stored event is
\* before the cutoff.
StillEventsBetweenFlipped(first, from) == ~PduCountLess(first, from)

\* `first_pdu.0 < from`: there are still events between them.
StillEventsBetween(first, from) == PduCountLess(first, from)

\* backfill_if_required returns at once for room r and cutoff from.
NoBackfillRequired(r, from) == StillEventsBetween(FirstPduCount(r), from)

\* The sequences without repetition of 1..n members of S.
SeqsOf(S, n) ==
    UNION {{q \in [1..k -> S] : \A i, j \in 1..k : i # j => q[i] # q[j]} : k \in 1..n}

\* What a server may answer to a backfill request for room r: events it
\* authored or holds that are new here (the next unused ids), events
\* this server soft-failed, and events already in the timeline, in any order.
Responses(r) ==
    LET fresh(k) == (Len(pdus) + 1)..(Len(pdus) + k)
        room == Cardinality({u \in Tasks : tk[u].pc = "call"})
    IN  UNION {{q \in SeqsOf(Handled(r) \cup fresh(k), MaxBatch) :
                    fresh(k) \subseteq {q[i] : i \in 1..Len(q)}} :
               k \in 0..(MaxEvents - Len(pdus) - room)}

\* How the answering server lists related events: each names the next one of
\* the list as its prev event, or the one before it.
Directions == {"newest_first", "oldest_first"}

\* The prev_events of the i-th event of a response, when it is new here.
ResponsePrev(q, i, dir) ==
    CASE dir = "newest_first" /\ i < Len(q) -> {q[i + 1]}
      [] dir = "oldest_first" /\ i > 1 -> {q[i - 1]}
      [] OTHER -> {}

\* The PDUs of the world after a response: the new events of the response
\* exist, authored remotely.
RECURSIVE WithResponse(_, _, _, _, _)
WithResponse(all, r, q, dir, first_pdu) ==
    LET e == Len(all) + 1
        at == CHOOSE i \in 1..Len(q) : q[i] = e
    IN  IF e \in {q[i] : i \in 1..Len(q)}
        THEN WithResponse(Append(all, Pdu(r, ResponsePrev(q, at, dir), RemoteUser,
                                          "message", NoUser, "backfill", first_pdu)),
                          r, q, dir, first_pdu)
        ELSE all

\* The task is done with the head of its batch: on to the next PDU of the
\* response, or out of the loop with Ok(()).
NextOfBatch(t) ==
    [tk EXCEPT ![t] = IF Len(tk[t].batch) > 1
                      THEN [@ EXCEPT !.pc = "bf_pdu", !.ev = 0, !.batch = Tail(tk[t].batch)]
                      ELSE IdleTask]

\* backfill_if_required with events left between the oldest stored one and
\* the cutoff: Ok, nothing done.
BackfillNotRequired(t) ==
    /\ tk[t].pc = "idle"
    /\ \E r \in FederatedRooms, from \in FromSet :
          /\ RoomPduIds(r) # {}
          /\ NoBackfillRequired(r, from)
    /\ UNCHANGED vars

\* backfill_if_required with a gap and no candidate server answering: each
\* failure is logged, then "No servers could backfill"; Ok.
BackfillNoServer(t) ==
    /\ tk[t].pc = "idle"
    /\ \E r \in FederatedRooms, from \in FromSet :
          /\ RoomPduIds(r) # {}
          /\ ~NoBackfillRequired(r, from)
    /\ UNCHANGED vars

\* backfill_if_required with a gap: a candidate server answers the request
\* with a batch, whose events are backfilled in the order of the response.
BackfillRequest(t) ==
    /\ tk[t].pc = "idle"
    /\ \E r \in FederatedRooms, from \in FromSet :
          /\ RoomPduIds(r) # {}
          /\ ~NoBackfillRequired(r, from)
          /\ \E q \in Responses(r), dir \in Directions :
                /\ pdus' = WithResponse(pdus, r, q, dir, MinPduId(RoomPduIds(r)))
                /\ tk' = [tk EXCEPT ![t] = [IdleTask EXCEPT !.pc = "bf_pdu", !.op = "backfill",
                                                           !.room = r, !.batch = q]]
    /\ UNCHANGED <<gateVars, counter, pduid_pdu, eventid_pduid,
                   shorteventid_shortstatehash, roomid_shortstatehash,
                   roomid_pduleaves, referenced, softfailed, userVars, cmpVars, extVars, auxVars>>

\* backfill_pdu goes on without waiting for the federation gate.
MutexFederationNotTaken(r) == TRUE

\* mutex_federation.lock(&room_id) can be granted: the room's federation
\* gate is free.
MutexFederationFree(r) == fedGate[r] = NoTask

\* backfill_pdu: parse_incoming_pdu, then mutex_federation.lock(&room_id).
BackfillPduLock(t) ==
    /\ tk[t].pc = "bf_pdu"
    /\ MutexFederationFree(tk[t].room)
    /\ fedGate' = [fedGate EXCEPT ![tk[t].room] = t]
    /\ tk' = [tk EXCEPT ![t] = [@ EXCEPT !.pc = "bf_handle", !.ev = Head(tk[t].batch)]]
    /\ UNCHANGED <<stateGate, insertGate, counter, storeVars, userVars, cmpVars, extVars, auxVars>>

\* The event is already a timeline event (get_pdu_id finds it): Ok.
BackfillPduKnown(t) ==
    /\ tk[t].pc = "bf_handle"
    /\ tk[t].ev \in DOMAIN eventid_pduid
    /\ fedGate' = [fedGate EXCEPT ![tk[t].room] = NoTask]
    /\ tk' = NextOfBatch(t)
    /\ UNCHANGED <<stateGate, insertGate, counter, storeVars, userVars, cmpVars, extVars, auxVars>>

\* fetch_required_signing_keys or handle_incoming_pdu fails: the error is
\* returned (and logged by backfill_if_required).
BackfillPduRejected(t) ==
    /\ tk[t].pc = "bf_handle"
    /\ tk[t].ev \notin DOMAIN eventid_pduid
    /\ fedGate' = [fedGate EXCEPT ![tk[t].room] = NoTask]
    /\ tk' = NextOfBatch(t)
    /\ UNCHANGED <<stateGate, insertGate, counter, storeVars, userVars, cmpVars, extVars, auxVars>>

\* Backfill locks a key of its own, which nothing else holds.
MutexInsertOwnKey(r) == TRUE

\* self.mutex_insert.lock(&room_id) of backfill_pdu can be granted: the
\* room's insertion gate, the one append_pdu locks, is free.
MutexInsertFree(r) == insertGate[r] = NoTask

\* The signing keys are fetched and handle_incoming_pdu (called for an event
\* that is not a timeline event of its own) accepts the event; then
\* self.mutex_insert.lock(&room_id).await.
BackfillPduLockInsert(t) ==
    /\ tk[t].pc = "bf_handle"
    /\ tk[t].ev \notin DOMAIN eventid_pduid
    /\ MutexInsertFree(tk[t].room)
    /\ insertGate' = [insertGate EXCEPT ![tk[t].room] = t]
    /\ tk' = [tk EXCEPT ![t] = [@ EXCEPT !.pc = "bf_insert"]]
    /\ UNCHANGED <<stateGate, fedGate, counter, storeVars, userVars, cmpVars, extVars, auxVars>>

\* backfill_pdu returns with the federation gate still held.
KeepMutexLock(gate, r, t) == gate

\* drop(mutex_lock) of backfill_pdu.
DropMutexLock(gate, r, t) == [gate EXCEPT ![r] = IF @ = t THEN NoTask ELSE @]

\* Under the insertion gate: the count, the id made of u64::MAX - count,
\* prepend_backfill_pdu; the insertion gate is dropped, a message body is
\* indexed, and the federation gate is dropped.
BackfillPduInsert(t) ==
    LET r == tk[t].room
        count == NextCount(counter)
        pdu_id == BackfillPduId(r, count)
    IN  /\ tk[t].pc = "bf_insert"
        /\ counter' = count
        /\ pduid_pdu' = Put(pduid_pdu, pdu_id, tk[t].ev)
        /\ pduid_json' = Put(pduid_json, pdu_id, OriginalContent)
        /\ eventid_pduid' = Put(eventid_pduid, tk[t].ev, pdu_id)
        /\ insertGate' = [insertGate EXCEPT ![r] = IF @ = t THEN NoTask ELSE @]
        /\ tokenids' = IndexMessage(tokenids, tk[t].ev, pdu_id)
        /\ fedGate' = DropMutexLock(fedGate, r, t)
        /\ tk' = NextOfBatch(t)
        /\ UNCHANGED <<stateGate, pdus, shorteventid_shortstatehash,
                       roomid_shortstatehash, roomid_pduleaves, referenced,
                       softfailed, userVars, cmpVars, eventid_shorteventid,
                       roomuserid_joined, bf, replaced, sideVars>>

\* The same up to drop(insert_lock): the event is in the timeline, its body
\* not yet in the index, and the federation gate still held.
BackfillPduPrepend(t) ==
    LET r == tk[t].room
        count == NextCount(counter)
        pdu_id == BackfillPduId(r, count)
    IN  /\ tk[t].pc = "bf_insert"
        /\ counter' = count
        /\ pduid_pdu' = Put(pduid_pdu, pdu_id, tk[t].ev)
        /\ pduid_json' = Put(pduid_json, pdu_id, OriginalContent)
        /\ eventid_pduid' = Put(eventid_pduid, tk[t].ev, pdu_id)
        /\ insertGate' = [insertGate EXCEPT ![r] = IF @ = t THEN NoTask ELSE @]
        /\ tk' = [tk EXCEPT ![t] = [@ EXCEPT !.pc = "bf_index"]]
        /\ UNCHANGED <<stateGate, fedGate, pdus, shorteventid_shortstatehash,
                       roomid_shortstatehash, roomid_pduleaves, referenced,
                       softfailed, userVars, cmpVars, eventid_shorteventid,
                       roomuserid_joined, auxVars>>

\* The tail of backfill_pdu: the body of the `pdu` read before the insert is
\* indexed under the new pdu id; drop(mutex_lock); Ok.
BackfillPduIndex(t) ==
    /\ tk[t].pc = "bf_index"
    /\ tokenids' = IndexMessage(tokenids, tk[t].ev, eventid_pduid[tk[t].ev])
    /\ fedGate' = DropMutexLock(fedGate, tk[t].room, t)
    /\ tk' = NextOfBatch(t)
    /\ UNCHANGED <<stateGate, insertGate, counter, storeVars, userVars, cmpVars,
                   extVars, bf, replaced, sideVars>>

\* The events of room r that a backfill response delivered and that are not
\* timeline events: being handled by a backfill_pdu call, or rejected by one.
Delivered(r) ==
    {e \in Events : pdus[e].room = r /\ pdus[e].via = "backfill"
                     /\ e \notin DOMAIN eventid_pduid}

\* backfill_if_required with a gap, answered with events that another
\* response has delivered before (and that may be in another call's hands at
\* this moment), next to events already in the timeline.
BackfillRedelivery(t) ==
    /\ tk[t].pc = "idle"
    /\ \E r \in FederatedRooms, from \in FromSet :
          /\ RoomPduIds(r) # {}
          /\ ~NoBackfillRequired(r, from)
          /\ \E q \in SeqsOf(Delivered(r) \cup Handled(r), MaxBatch) :
                /\ \E i \in 1..Len(q) : q[i] \in Delivered(r)
                /\ tk' = [tk EXCEPT ![t] = [IdleTask EXCEPT !.pc = "bf_pdu", !.op = "backfill",
                                                           !.room = r, !.batch = q]]
    /\ UNCHANGED <<gateVars, counter, storeVars, userVars, cmpVars, extVars, auxVars>>

\* backfill_pdu past its check of get_pdu_id: the signing keys are fetched
\* and handle_incoming_pdu accepts the event; the call goes on to
\* self.mutex_insert.lock(&room_id), for which it may have to wait.
BackfillPduHandled(t) ==
    /\ tk[t].pc = "bf_handle"
    /\ tk[t].ev \notin DOMAIN eventid_pduid
    /\ tk' = [tk EXCEPT ![t] = [@ EXCEPT !.pc = "bf_lock"]]
    /\ UNCHANGED <<gateVars, counter, storeVars, userVars, cmpVars, extVars, auxVars>>

\* self.mutex_insert.lock(&room_id).await of backfill_pdu is granted.
BackfillPduInsertLocked(t) ==
    /\ tk[t].pc = "bf_lock"
    /\ MutexInsertFree(tk[t].room)
    /\ insertGate' = [insertGate EXCEPT ![tk[t].room] = t]
    /\ tk' = [tk EXCEPT ![t] = [@ EXCEPT !.pc = "bf_insert"]]
    /\ UNCHANGED <<stateGate, fedGate, counter, storeVars, userVars, cmpVars, extVars, auxVars>>

(* ----------------------- read markers and receipts -------------------- *)

\* The user whose client sends read markers and receipts.
ReadingUser == "u1"

\* The short event id of an event: a number that stands for it.
ShortEventId(e) == e

\* private_read_set: the marker, and a count for the time of the update.
PrivateReadSet(r, u, count) ==
    /\ roomuserid_privateread' = [roomuserid_privateread EXCEPT ![<<r, u>>] = count]
    /\ counter' = NextCount(counter)

\* set_read_marker_route with a private_read_receipt (create_receipt_route
\* with ReadPrivate does the same): the event must be at a live position of
\* the timeline; the marker is set to get_or_create_shorteventid(event).
SetPrivateReadMarker ==
    /\ counter < MaxReadCounter
    /\ \E e \in DOMAIN eventid_pduid :
          /\ PduCountOf(eventid_pduid[e]).kind = "Normal"
          /\ eventid_shorteventid' = eventid_shorteventid \cup {e}
          /\ PrivateReadSet(pdus[e].room, ReadingUser, ShortEventId(e))
    /\ UNCHANGED <<gateVars, storeVars, notificationcount, highlightcount, pushJobs,
                   tk, cmpVars, pduid_json, roomuserid_joined, auxVars>>

\* set_read_marker_route with a read_receipt (create_receipt_route with Read
\* does the same): get_pdu must find the event, at whatever position; the
\* receipt EDU; the private marker is set to get_or_create_shorteventid(event).
SetReadReceipt ==
    /\ counter < MaxReadCounter
    /\ \E e \in DOMAIN eventid_pduid :
          /\ eventid_shorteventid' = eventid_shorteventid \cup {e}
          /\ PrivateReadSet(pdus[e].room, ReadingUser, ShortEventId(e))
    /\ UNCHANGED <<gateVars, storeVars, notificationcount, highlightcount, pushJobs,
                   tk, cmpVars, pduid_json, roomuserid_joined, auxVars>>

(* ---------------------------- specifications ---------------------------- *)

\* The append pipelines: local, incoming and soft-failed appends.
NextAppend ==
    \/ \E t \in Tasks : Call(t)
    \/ \E t \in Tasks : StateMutexLock(t)
    \/ \E t \in Tasks : BuildAndAppendPdu(t)
    \/ \E t \in Tasks : CreateForbidden(t)
    \/ \E t \in Tasks : ForbiddenReturned(t)
    \/ \E t \in Tasks : BuildAndAppendPduFinish(t)
    \/ \E t \in Tasks : AppendPduLockInsert(t)
    \/ \E t \in Tasks : AppendPduInsert(t)
    \/ \E t \in Tasks : AppendIncomingPdu(t)
    \/ \E t \in Tasks : AppendIncomingSoftFail(t)
    \/ \E t \in Tasks : AppendIncomingFinish(t)

\* Backfill.
NextBackfill ==
    \/ \E t \in Tasks : BackfillNotRequired(t)
    \/ \E t \in Tasks : BackfillNoServer(t)
    \/ \E t \in Tasks : BackfillRequest(t)
    \/ \E t \in Tasks : BackfillPduLock(t)
    \/ \E t \in Tasks : BackfillPduKnown(t)
    \/ \E t \in Tasks : BackfillPduRejected(t)
    \/ \E t \in Tasks : BackfillPduLockInsert(t)
    \/ \E t \in Tasks : BackfillPduInsert(t)

Next == NextAppend \/ NextBackfill

\* The whole service: appends and backfill.
Spec == Init /\ [][Next]_vars

\* Local, incoming and soft-failed appends only.
SpecAppend == Init /\ [][NextAppend]_vars

\* Appends, backfill and responses that repeat events of earlier responses.
\* The live events come in from the federation; in backfill_pdu the check of
\* get_pdu_id and the wait for the insertion gate are steps of their own.
NextRedelivery ==
    \/ \E t \in Tasks : Call(t)
    \/ \E t \in Tasks : StateMutexLock(t)
    \/ \E t \in Tasks : AppendIncomingPdu(t)
    \/ \E t \in Tasks : AppendPduLockInsert(t)
    \/ \E t \in Tasks : AppendPduInsert(t)
    \/ \E t \in Tasks : AppendIncomingFinish(t)
    \/ \E t \in Tasks : BackfillRequest(t)
    \/ \E t \in Tasks : BackfillRedelivery(t)
    \/ \E t \in Tasks : BackfillPduLock(t)
    \/ \E t \in Tasks : BackfillPduKnown(t)
    \/ \E t \in Tasks : BackfillPduRejected(t)
    \/ \E t \in Tasks : BackfillPduHandled(t)
    \/ \E t \in Tasks : BackfillPduInsertLocked(t)
    \/ \E t \in Tasks : BackfillPduInsert(t)

SpecRedelivery == Init /\ [][NextRedelivery]_vars

(* ------------------------- the gates under load ------------------------- *)

\* What a task that has started an append or a backfill does next: every
\* step but the arrival of a new request.
Proceed(t) ==
    \/ StateMutexLock(t)
    \/ BuildAndAppendPdu(t)
    \/ BuildAndAppendPduFinish(t)
    \/ AppendPduLockInsert(t)
    \/ AppendPduInsert(t)
    \/ AppendIncomingPdu(t)
    \/ AppendIncomingFinish(t)
    \/ BackfillPduLock(t)
    \/ BackfillPduKnown(t)
    \/ BackfillPduLockInsert(t)
    \/ BackfillPduInsert(t)

\* Local appends, incoming appends and backfill.
NextGates ==
    \/ \E t \in Tasks : Call(t)
    \/ \E t \in Tasks : BackfillRequest(t)
    \/ \E t \in Tasks : Proceed(t)

\* The runtime polls every task that can go on, and the gates are tokio
\* mutexes, which serve their waiters in turn: a task that can go on again
\* and again does go on.
SpecGates == Init /\ [][NextGates]_vars /\ \A t \in Tasks : SF_vars(Proceed(t))

(* --------------------------- error returns ------------------------------ *)

\* The guard stays locked when the function returns early.
InsertLockLeaked(gate, r, t) == gate

\* `let insert_lock = ..lock(..).await`: a `?` that returns early drops the
\* guard with the function's scope.
InsertLockScopeEnd(gate, r, t) == [gate EXCEPT ![r] = IF @ = t THEN NoTask ELSE @]

\* Where a store error can end append_pdu between the lock of the insertion
\* gate and drop(insert_lock): at the first next_count, with nothing
\* written, or at self.db.append_pdu, with the read marker set, the counters
\* reset and two more counts taken.
InsertErrorPoints == {"next_count", "append_pdu"}

\* An Err inside the insertion gate: the `?` returns it to the caller.
AppendPduInsertFails(t) ==
    LET r == tk[t].room
        sender == pdus[tk[t].ev].sender
        count1 == NextCount(counter)
        count2 == NextCount(NextCount(count1))
    IN  /\ tk[t].pc = "ap_insert"
        /\ \E at \in InsertErrorPoints :
              IF at = "next_count"
              THEN UNCHANGED <<counter, roomuserid_privateread, notificationcount,
                               highlightcount>>
              ELSE /\ roomuserid_privateread' =
                         [roomuserid_privateread EXCEPT ![<<r, sender>>] = count1]
                   /\ notificationcount' = [notificationcount EXCEPT ![<<r, sender>>] = 0]
                   /\ highlightcount' = [highlightcount EXCEPT ![<<r, sender>>] = 0]
                   /\ counter' = count2
        /\ insertGate' = InsertLockScopeEnd(insertGate, r, t)
        /\ tk' = [tk EXCEPT ![t] = [@ EXCEPT !.pc = "failed"]]
        /\ UNCHANGED <<stateGate, fedGate, storeVars, pushJobs, cmpVars, extVars, auxVars>>

\* The RoomMessage arm of append_pdu for a content whose body is not a
\* string: the event is stored and pushed, ExtractBody does not parse, and
\* "Invalid content in pdu." is returned before anything else is done.
AppendPduContentFails(t) ==
    /\ tk[t].pc = "ap_fanout"
    /\ pdus[tk[t].ev].kind = "message"
    /\ AppendPduPush(t)
    /\ tk' = [tk EXCEPT ![t] = [@ EXCEPT !.pc = "failed"]]
    /\ UNCHANGED <<gateVars, counter, storeVars, roomuserid_privateread, cmpVars,
                   extVars, auxVars>>

\* `.append_pdu(..).await?`: build_and_append_pdu and append_incoming_pdu
\* hand the error on, and the caller drops its guard.
AppendErrorReturned(t) ==
    /\ tk[t].pc = "failed"
    /\ CallerUnlock(t)
    /\ UNCHANGED <<insertGate, fedGate, counter, storeVars, userVars, cmpVars, extVars, auxVars>>

\* next_count or prepend_backfill_pdu fails inside backfill_pdu: both guards
\* go with the scope, backfill_if_required logs the error and goes on.
BackfillPduInsertFails(t) ==
    /\ tk[t].pc = "bf_insert"
    /\ insertGate' = InsertLockScopeEnd(insertGate, tk[t].room, t)
    /\ fedGate' = DropMutexLock(fedGate, tk[t].room, t)
    /\ tk' = NextOfBatch(t)
    /\ UNCHANGED <<stateGate, counter, storeVars, userVars, cmpVars, extVars, auxVars>>

\* Appends and backfill with their error returns.
NextFailure ==
    \/ \E t \in Tasks : Call(t)
    \/ \E t \in Tasks : StateMutexLock(t)
    \/ \E t \in Tasks : BuildAndAppendPdu(t)
    \/ \E t \in Tasks : BuildAndAppendPduFinish(t)
    \/ \E t \in Tasks : AppendPduLockInsert(t)
    \/ \E t \in Tasks : AppendPduInsert(t)
    \/ \E t \in Tasks : AppendPduInsertFails(t)
    \/ \E t \in Tasks : AppendPduContentFails(t)
    \/ \E t \in Tasks : AppendErrorReturned(t)
    \/ \E t \in Tasks : AppendIncomingPdu(t)
    \/ \E t \in Tasks : AppendIncomingSoftFail(t)
    \/ \E t \in Tasks : AppendIncomingFinish(t)
    \/ \E t \in Tasks : BackfillRequest(t)
    \/ \E t \in Tasks : BackfillPduLock(t)
    \/ \E t \in Tasks : BackfillPduKnown(t)
    \/ \E t \in Tasks : BackfillPduLockInsert(t)
    \/ \E t \in Tasks : BackfillPduInsertFails(t)
    \/ \E t \in Tasks : BackfillPduPrepend(t)
    \/ \E t \in Tasks : BackfillPduIndex(t)

SpecFailure == Init /\ [][NextFailure]_vars

\* Local messages and their redactions next to backfill, with the insert
\* and the indexing of backfill_pdu as steps of their own.
NextSearch ==
    \/ \E t \in Tasks : Call(t)
    \/ \E t \in Tasks : StateMutexLock(t)
    \/ \E t \in Tasks : BuildAndAppendPdu(t)
    \/ \E t \in Tasks : BuildAndAppendPduFinish(t)
    \/ \E t \in Tasks : AppendPduLockInsert(t)
    \/ \E t \in Tasks : AppendPduInsert(t)
    \/ \E t \in Tasks : BuildAndAppendRedaction(t)
    \/ \E t \in Tasks : BuildAndAppendRedactionFinish(t)
    \/ \E t \in Tasks : BackfillRequest(t)
    \/ \E t \in Tasks : BackfillPduLock(t)
    \/ \E t \in Tasks : BackfillPduKnown(t)
    \/ \E t \in Tasks : BackfillPduLockInsert(t)
    \/ \E t \in Tasks : BackfillPduPrepend(t)
    \/ \E t \in Tasks : BackfillPduIndex(t)

SpecSearch == Init /\ [][NextSearch]_vars

\* Clients' read markers and receipts.
NextReadMarker == SetPrivateReadMarker \/ SetReadReceipt

\* Events arriving from the federation, backfill, and read markers.
SpecReadMarker ==
    Init /\ [][\/ \E t \in Tasks : Call(t)
               \/ \E t \in Tasks : StateMutexLock(t)
               \/ \E t \in Tasks : AppendIncomingPdu(t)
               \/ \E t \in Tasks : AppendPduLockInsert(t)
               \/ \E t \in Tasks : AppendPduInsert(t)
               \/ \E t \in Tasks : AppendIncomingFinish(t)
               \/ \E t \in Tasks : BackfillRequest(t)
               \/ \E t \in Tasks : BackfillPduLock(t)
               \/ \E t \in Tasks : BackfillPduLockInsert(t)
               \/ \E t \in Tasks : BackfillPduInsert(t)
               \/ NextReadMarker]_vars

\* Events of the administrative room.
NextAdmin ==
    \/ \E t \in Tasks : BuildAndAppendAdmin(t)
    \/ \E t \in Tasks : AdminGuardForbidden(t)

\* The appends, those the guards of the administrative room look at among
\* them.
SpecAdmin == Init /\ [][NextAppend \/ NextAdmin]_vars

\* Local redactions.
NextRedaction ==
    \/ \E t \in Tasks : BuildAndAppendRedaction(t)
    \/ \E t \in Tasks : RedactionForbidden(t)
    \/ \E t \in Tasks : BuildAndAppendRedactionFinish(t)

\* The appends, redactions among them.
SpecRedaction == Init /\ [][NextAppend \/ NextRedaction]_vars

(* ----------------------- comparing positions ---------------------------- *)

\* The counts the comparison draws from.
CmpCounts == (0..MaxCount) \cup {U64Max}

Positions == {Normal(n) : n \in CmpCounts} \cup {Backfilled(n) : n \in CmpCounts}

InitCmp ==
    /\ MainInit
    /\ bf = NoBackfillCall
    /\ replaced = EmptyMap
    /\ SideInit
    /\ ca \in Positions /\ cb \in Positions /\ cc \in Positions
    /\ cres = NoCmp

\* ca, cb and cc are compared with `<`.
Compare ==
    /\ ~cres.done
    /\ cres' = [done |-> TRUE, ab |-> PduCountLess(ca, cb), ba |-> PduCountLess(cb, ca),
                bc |-> PduCountLess(cb, cc), ac |-> PduCountLess(ca, cc)]
    /\ UNCHANGED <<mainVars, ca, cb, cc, extVars, auxVars>>

NextCmp == Compare

SpecCmp == InitCmp /\ [][NextCmp]_vars

(* ------------------- backfill_if_required, step by step ----------------- *)

\* globals.server_name() and two remote servers.
LocalServer == "ours"

ServerNames == {LocalServer, "a", "b"}

\* power_levels.users_default of the room.
UsersDefault == 0

\* The levels the users table gives.
PowerLevels == {UsersDefault, 50}

\* The sequences of at most n members of S.
UpTo(S, n) == UNION {[1..k -> S] : k \in 0..n}

\* The positions the room's oldest stored event is at.
FirstSet == {PduCountMin, Backfilled(1), Normal(0), Normal(1)}

\* The candidates with the trusted servers asked first.
ServersTrustedFirst(users, aliases, trusted, in_room) ==
    LET IsMod(m) == m[2] > UsersDefault /\ m[1] # LocalServer
        mods == SelectSeq(users, IsMod)
        room_mods == [i \in 1..Len(mods) |-> mods[i][1]]
        NotOurs(x) == x # LocalServer
        room_alias_servers == SelectSeq(aliases, NotOurs)
        InRoom(x) == x # LocalServer /\ x \in in_room
    IN  SelectSeq(trusted \o room_mods \o room_alias_servers, InRoom)

\* `servers`: the home servers of the users above users_default that are not
\* ours, in the order of the users table; then the servers of the room's
\* local aliases that are not ours; then the trusted servers; all filtered to
\* those that are not ours and are in the room.
Servers(users, aliases, trusted, in_room) ==
    LET IsMod(m) == m[2] > UsersDefault /\ m[1] # LocalServer
        mods == SelectSeq(users, IsMod)
        room_mods == [i \in 1..Len(mods) |-> mods[i][1]]
        NotOurs(x) == x # LocalServer
        room_alias_servers == SelectSeq(aliases, NotOurs)
        InRoom(x) == x # LocalServer /\ x \in in_room
    IN  SelectSeq(room_mods \o room_alias_servers \o trusted, InRoom)

\* A call of backfill_if_required about to start: the position of the room's
\* oldest stored event, the cutoff, the users table of the power levels (home
\* server and level of each user, in the table's order), the servers of the
\* local aliases, the trusted servers of the configuration, the servers in
\* the room, and how each remote server answers a backfill request.
BackfillCalls ==
    [pc : {"start"}, first : FirstSet, from : FromSet,
     users : UpTo(ServerNames \X PowerLevels, MaxMods),
     aliases : UpTo(ServerNames, 1), trusted : UpTo(ServerNames, 1),
     in_room : SUBSET (ServerNames \ {LocalServer}),
     answers : [ServerNames \ {LocalServer} -> {"ok", "err"}],
     servers : {<<>>}, asked : {<<>>}, applied : {0},
     batch : {<<>>}, done : {0}, stored : {0}, result : {"pending"}]

InitBackfillCall ==
    /\ MainInit
    /\ ca = PduCountMin /\ cb = PduCountMin /\ cc = PduCountMin
    /\ cres = NoCmp
    /\ replaced = EmptyMap
    /\ SideInit
    /\ bf \in BackfillCalls

\* `if first_pdu.0 < from { return Ok(()) }`
BackfillReturnsEarly ==
    /\ bf.pc = "start"
    /\ StillEventsBetween(bf.first, bf.from)
    /\ bf' = [bf EXCEPT !.pc = "noop", !.result = "ok"]
    /\ UNCHANGED <<mainVars, cmpVars, extVars, replaced, tokenids, sideVars>>

\* Backfill is needed: the candidate servers are put together.
BackfillCollectServers ==
    /\ bf.pc = "start"
    /\ ~StillEventsBetween(bf.first, bf.from)
    /\ bf' = [bf EXCEPT !.pc = "asking",
                         !.servers = Servers(bf.users, bf.aliases, bf.trusted, bf.in_room)]
    /\ UNCHANGED <<mainVars, cmpVars, extVars, replaced, tokenids, sideVars>>

\* What backfill_pdu does with each PDU of a response: it prepends the
\* event, or it returns an error.
ResponseOutcomes == UpTo({"stored", "err"}, MaxBatch)

\* One turn of `for backfill_server in servers`: the server is asked; an
\* Ok response is applied and the function returns, an Err is logged and the
\* loop goes on.
BackfillAskServer ==
    /\ bf.pc = "asking"
    /\ Len(bf.asked) < Len(bf.servers)
    /\ LET backfill_server == bf.servers[Len(bf.asked) + 1]
       IN  IF bf.answers[backfill_server] = "ok"
           THEN \E pdus_of_response \in ResponseOutcomes :
                   bf' = [bf EXCEPT !.asked = Append(@, backfill_server),
                                    !.applied = @ + 1, !.pc = "backfilled",
                                    !.batch = pdus_of_response]
           ELSE bf' = [bf EXCEPT !.asked = Append(@, backfill_server)]
    /\ UNCHANGED <<mainVars, cmpVars, extVars, replaced, tokenids, sideVars>>

\* The error of backfill_pdu leaves the loop and is returned to the caller.
BackfillPduErrorReturned(call) ==
    [call EXCEPT !.done = Len(call.batch), !.result = "err"]

\* `if let Err(e) = self.backfill_pdu(..).await { warn!(..) }`: the error is
\* logged and the loop over response.pdus goes on.
BackfillPduErrorLogged(call) == [call EXCEPT !.done = @ + 1]

\* One turn of `for pdu in response.pdus`.
BackfillResponsePdu ==
    /\ bf.pc = "backfilled"
    /\ bf.result = "pending"
    /\ bf.done < Len(bf.batch)
    /\ bf' = IF bf.batch[bf.done + 1] = "stored"
             THEN [bf EXCEPT !.done = @ + 1, !.stored = @ + 1]
             ELSE BackfillPduErrorLogged(bf)
    /\ UNCHANGED <<mainVars, cmpVars, extVars, replaced, tokenids, sideVars>>

\* `return Ok(())` after the loop over response.pdus.
BackfillResponseDone ==
    /\ bf.pc = "backfilled"
    /\ bf.result = "pending"
    /\ bf.done = Len(bf.batch)
    /\ bf' = [bf EXCEPT !.result = "ok"]
    /\ UNCHANGED <<mainVars, cmpVars, extVars, replaced, tokenids, sideVars>>

\* The loop ends with no server left: "No servers could backfill"; Ok.
BackfillNoServerLeft ==
    /\ bf.pc = "asking"
    /\ Len(bf.asked) = Len(bf.servers)
    /\ bf' = [bf EXCEPT !.pc = "exhausted", !.result = "ok"]
    /\ UNCHANGED <<mainVars, cmpVars, extVars, replaced, tokenids, sideVars>>

NextBackfillCall ==
    \/ BackfillReturnsEarly
    \/ BackfillCollectServers
    \/ BackfillAskServer
    \/ BackfillResponsePdu
    \/ BackfillResponseDone
    \/ BackfillNoServerLeft

\* One call of backfill_if_required, from each of its inputs.
SpecBackfillCall == InitBackfillCall /\ [][NextBackfillCall]_vars

(* ------------------ append_pdu: the loop over appservices --------------- *)

\* The registered appservices, in the order of the registry's values().
AppserviceIds == <<"as1", "as2">>

\* A user id as a string: sigil, localpart, colon, server name.
UserIdString(localpart) == <<"@", localpart, ":", LocalServer>>

\* A localpart as a string.
LocalpartString(localpart) == <<localpart>>

\* An event without state key.
NoKey == <<"none">>

\* UserId::parse(state_key).ok(): a string with sigil and server name.
ParsesAsUserId(str) == Len(str) = 4 /\ str[1] = "@" /\ str[3] = ":"

\* The user ids a registration's users namespace may match.
UsersNamespaces == {{}, {UserIdString("u1")}, {UserIdString("bot")}}

\* A registration as the loop sees it: whether the appservice is in the
\* room (state_cache.appservice_in_room), its sender_localpart, the user ids
\* its users namespace matches, and whether its aliases namespace matches a
\* local alias of the room or its rooms namespace the room id.
Registrations ==
    [in_room : BOOLEAN, sender_localpart : {LocalpartString("bot")},
     users : UsersNamespaces, aliases_or_rooms : BOOLEAN]

\* The appended events: messages, and membership events about a user.
AppservicePdus ==
    [kind : {"message"}, sender : {UserIdString("u1"), UserIdString("u2")},
     state_key : {NoKey}]
    \cup [kind : {"member"}, sender : {UserIdString("u1"), UserIdString("u2")},
          state_key : {UserIdString("u1"), UserIdString("bot")}]

\* `state_key_uid == appservice_uid`: the parsed state key, a user id,
\* compared as a string with registration.sender_localpart.
StateKeyIsAppserviceUser(reg, pdu) ==
    /\ pdu.kind = "member"
    /\ pdu.state_key # NoKey /\ ParsesAsUserId(pdu.state_key)
    /\ pdu.state_key = reg.sender_localpart

\* matching_users
MatchingUsers(reg, pdu) ==
    \/ pdu.sender \in reg.users
    \/ pdu.kind = "member" /\ pdu.state_key # NoKey /\ pdu.state_key \in reg.users

\* matching_aliases || rooms.is_match || matching_users
NamespaceMatches(reg, pdu) == reg.aliases_or_rooms \/ MatchingUsers(reg, pdu)

\* The body of the loop without its `continue`s.
SendsWithoutContinue(id, reg, pdu) ==
    (IF reg.in_room THEN <<id>> ELSE <<>>)
        \o (IF StateKeyIsAppserviceUser(reg, pdu) THEN <<id>> ELSE <<>>)
        \o (IF NamespaceMatches(reg, pdu) THEN <<id>> ELSE <<>>)

\* One turn of `for appservice in services().appservice.read().await.values()`:
\* the send_pdu_appservice calls it makes.
AppserviceSends(id, reg, pdu) ==
    IF reg.in_room THEN <<id>>
    ELSE IF StateKeyIsAppserviceUser(reg, pdu) THEN <<id>>
    ELSE IF NamespaceMatches(reg, pdu) THEN <<id>>
    ELSE <<>>

\* The tail of append_pdu about to start for an event, with the registry.
AppserviceLoops ==
    [pc : {"loop"}, pdu : AppservicePdus,
     regs : [{AppserviceIds[i] : i \in 1..Len(AppserviceIds)} -> Registrations],
     todo : {AppserviceIds}, sent : {<<>>}]

InitAppservice ==
    /\ MainInit
    /\ ca = PduCountMin /\ cb = PduCountMin /\ cc = PduCountMin
    /\ cres = NoCmp
    /\ bf = NoBackfillCall
    /\ replaced = EmptyMap
    /\ aps \in AppserviceLoops
    /\ cr = NoCreateCall
    /\ fd = NoDispatch
    /\ sx = NoExtremityWrite
    /\ ua = NoUiaa /\ rm = NoReadMarker

\* One turn of the loop.
AppserviceTurn ==
    /\ aps.pc = "loop"
    /\ aps.todo # <<>>
    /\ LET id == Head(aps.todo)
       IN  aps' = [aps EXCEPT !.todo = Tail(@),
                              !.sent = @ \o AppserviceSends(id, aps.regs[id], aps.pdu)]
    /\ UNCHANGED <<mainVars, cmpVars, extVars, bf, replaced, tokenids, cr, fd, sx, ua, rm>>

\* Ok(pdu_id)
AppserviceLoopDone ==
    /\ aps.pc = "loop"
    /\ aps.todo = <<>>
    /\ aps' = [aps EXCEPT !.pc = "done"]
    /\ UNCHANGED <<mainVars, cmpVars, extVars, bf, replaced, tokenids, cr, fd, sx, ua, rm>>

NextAppservice == AppserviceTurn \/ AppserviceLoopDone

\* The appservice loop of append_pdu, for each event and registry.
SpecAppservice == InitAppservice /\ [][NextAppservice]_vars

(* ------------- create_hash_and_sign_event, statement by statement ------- *)

\* The room versions: the two that carry event_id in the PDU format, and
\* later ones.
RoomVersionIds == {"V1", "V2", "V3", "V11"}

\* The depths of the events a new event may name as prev_events: those of a
\* young room, and the largest depth a remote event can carry.
PrevDepths == {1, 2, UIntMax}

\* The field is absent from a JSON object.
Absent == "absent"

\* A JSON object with field set to value.
JsonInsert(json, field, value) == [json EXCEPT ![field] = value]

\* A JSON object without field.
JsonRemove(json, field) == [json EXCEPT ![field] = Absent]

\* The top-level fields followed, and utils::to_canonical_object(&pdu) for
\* the PduEvent just assembled: the placeholder event id, no origin.
JsonFields == {"event_id", "origin", "depth", "hashes", "signatures"}

\* depth without the saturation: max + 1 whatever max is.
DepthUnbounded(prev_depths) ==
    LET ds == {prev_depths[i] : i \in 1..Len(prev_depths)}
        max == IF ds = {} THEN 0 ELSE CHOOSE d \in ds : \A o \in ds : o <= d
    IN  max + 1

\* `depth`: the largest depth of the prev_events, 0 for none,
\* .saturating_add(1).
Depth(prev_depths) ==
    LET ds == {prev_depths[i] : i \in 1..Len(prev_depths)}
        max == IF ds = {} THEN 0 ELSE CHOOSE d \in ds : \A o \in ds : o <= d
    IN  IF max >= UIntMax THEN UIntMax ELSE max + 1

\* The match on room_version_id that leaves the object as it is.
KeepEventId(json, room_version_id) == json

\* `match room_version_id { V1 | V2 => {}, _ => { pdu_json.remove("event_id") } }`
RemoveEventId(json, room_version_id) ==
    IF room_version_id \in {"V1", "V2"} THEN json ELSE JsonRemove(json, "event_id")

\* A call about to start: the room's version and the depths of the forward
\* extremities taken as prev_events.
CreateCalls ==
    [pc : {"start"}, room_version_id : RoomVersionIds,
     prev_depths : UpTo(PrevDepths, 2),
     depth : {0}, event_id : {"$thiswillbefilledinlater"},
     pdu_json : {[f \in JsonFields |-> Absent]},
     signed : {[f \in JsonFields |-> Absent]},
     stored : {[f \in JsonFields |-> Absent]}]

InitCreate ==
    /\ MainInit
    /\ ca = PduCountMin /\ cb = PduCountMin /\ cc = PduCountMin
    /\ cres = NoCmp
    /\ bf = NoBackfillCall
    /\ replaced = EmptyMap
    /\ aps = NoAppserviceLoop
    /\ cr \in CreateCalls
    /\ fd = NoDispatch
    /\ sx = NoExtremityWrite
    /\ ua = NoUiaa /\ rm = NoReadMarker

\* prev_events, room version, auth events, depth; the PduEvent is assembled.
CreateAssemble ==
    /\ cr.pc = "start"
    /\ cr' = [cr EXCEPT !.pc = "auth", !.depth = Depth(cr.prev_depths)]
    /\ UNCHANGED <<mainVars, cmpVars, extVars, bf, replaced, tokenids, aps, fd, sx, ua, rm>>

\* state_res::auth_check fails or says no: Forbidden.
CreateNotAuthorized ==
    /\ cr.pc = "auth"
    /\ \E auth \in AuthResults :
          /\ ~AuthCheckPasses(auth)
          /\ cr' = [cr EXCEPT !.pc = "forbidden"]
    /\ UNCHANGED <<mainVars, cmpVars, extVars, bf, replaced, tokenids, aps, fd, sx, ua, rm>>

\* The auth check passes; utils::to_canonical_object(&pdu). The origin of
\* the PduEvent is None, which the object holds as null or leaves out.
CreateCanonical ==
    /\ cr.pc = "auth"
    /\ \E auth \in AuthResults, origin \in {Absent, "null"} :
          /\ AuthCheckPasses(auth)
          /\ cr' = [cr EXCEPT !.pc = "canonical",
                               !.pdu_json = [f \in JsonFields |->
                                   CASE f = "event_id" -> cr.event_id
                                     [] f = "depth" -> cr.depth
                                     [] f = "origin" -> origin
                                     [] OTHER -> Absent]]
    /\ UNCHANGED <<mainVars, cmpVars, extVars, bf, replaced, tokenids, aps, fd, sx, ua, rm>>

\* The match on the room version, and pdu_json.insert("origin", server_name).
CreateFormat ==
    /\ cr.pc = "canonical"
    /\ cr' = [cr EXCEPT !.pc = "formatted",
                         !.pdu_json = JsonInsert(RemoveEventId(cr.pdu_json, cr.room_version_id),
                                                 "origin", LocalServer)]
    /\ UNCHANGED <<mainVars, cmpVars, extVars, bf, replaced, tokenids, aps, fd, sx, ua, rm>>

\* ruma::signatures::hash_and_sign_event adds the content hash and the
\* signature to the object it is given, or fails (PduSize, or another error).
CreateSign ==
    /\ cr.pc = "formatted"
    /\ \/ LET signed == JsonInsert(JsonInsert(cr.pdu_json, "hashes", "sha256"),
                                   "signatures", LocalServer)
          IN  cr' = [cr EXCEPT !.pc = "signed", !.pdu_json = signed, !.signed = signed]
       \/ cr' = [cr EXCEPT !.pc = "signing_failed"]
    /\ UNCHANGED <<mainVars, cmpVars, extVars, bf, replaced, tokenids, aps, fd, sx, ua, rm>>

\* The event id is the reference hash of the signed object; it is set in the
\* PduEvent and inserted into pdu_json; the short event id; Ok((pdu, pdu_json)).
CreateEventId ==
    /\ cr.pc = "signed"
    /\ cr' = [cr EXCEPT !.pc = "returned", !.event_id = "$reference_hash",
                         !.pdu_json = JsonInsert(cr.pdu_json, "event_id", "$reference_hash")]
    /\ UNCHANGED <<mainVars, cmpVars, extVars, bf, replaced, tokenids, aps, fd, sx, ua, rm>>

\* append_pdu: self.db.append_pdu(&pdu_id, pdu, &pdu_json, count2).
CreatePersist ==
    /\ cr.pc = "returned"
    /\ cr' = [cr EXCEPT !.pc = "persisted", !.stored = cr.pdu_json]
    /\ UNCHANGED <<mainVars, cmpVars, extVars, bf, replaced, tokenids, aps, fd, sx, ua, rm>>

NextCreate ==
    \/ CreateAssemble
    \/ CreateNotAuthorized
    \/ CreateCanonical
    \/ CreateFormat
    \/ CreateSign
    \/ CreateEventId
    \/ CreatePersist

\* One call of create_hash_and_sign_event and the write of its result.
SpecCreate == InitCreate /\ [][NextCreate]_vars

(* --------- build_and_append_pdu: prev_events and the extremities -------- *)

\* The most forward extremities a room is taken to have when a local event
\* is created: one more than prev_events can hold.
MaxLeaves == PrevLimit + 1

\* The event being created.
NewEventId == 0

\* A call about to start, in a room with one to MaxLeaves forward
\* extremities (events 1, 2, ..).
HeadsCalls ==
    [pc : {"start"}, leaves : {1..n : n \in 1..MaxLeaves}, prev_events : {{}},
     marked : {{}}, new_leaves : {{}}]

InitHeads ==
    /\ MainInit
    /\ ca = PduCountMin /\ cb = PduCountMin /\ cc = PduCountMin
    /\ cres = NoCmp
    /\ bf = NoBackfillCall
    /\ replaced = EmptyMap
    /\ aps = NoAppserviceLoop
    /\ fd = NoDispatch
    /\ cr \in HeadsCalls
    /\ sx = NoExtremityWrite
    /\ ua = NoUiaa /\ rm = NoReadMarker

\* create_hash_and_sign_event: get_forward_extremities(..).take(20), and the
\* auth check passing.
HeadsCreate ==
    /\ cr.pc = "start"
    /\ \E prev \in TakePrev(cr.leaves), auth \in AuthResults :
          /\ AuthCheckPasses(auth)
          /\ cr' = [cr EXCEPT !.pc = "created", !.prev_events = prev]
    /\ UNCHANGED <<mainVars, cmpVars, extVars, bf, replaced, tokenids, aps, fd, sx, ua, rm>>

\* The auth check fails: nothing is appended.
HeadsNotAuthorized ==
    /\ cr.pc = "start"
    /\ \E auth \in AuthResults :
          /\ ~AuthCheckPasses(auth)
          /\ cr' = [cr EXCEPT !.pc = "forbidden"]
    /\ UNCHANGED <<mainVars, cmpVars, extVars, bf, replaced, tokenids, aps, fd, sx, ua, rm>>

\* append_pdu called with vec![pdu.event_id] as leaves: mark_as_referenced
\* for the prev_events, set_forward_extremities.
HeadsAppend ==
    /\ cr.pc = "created"
    /\ cr' = [cr EXCEPT !.pc = "appended", !.marked = cr.prev_events,
                        !.new_leaves = LocalLeaves(cr.leaves, NewEventId)]
    /\ UNCHANGED <<mainVars, cmpVars, extVars, bf, replaced, tokenids, aps, fd, sx, ua, rm>>

NextHeads ==
    \/ HeadsCreate
    \/ HeadsNotAuthorized
    \/ HeadsAppend

\* One local append, seen from the room's forward extremities.
SpecHeads == InitHeads /\ [][NextHeads]_vars

(* ------------- set_forward_extremities next to a reader ---------------- *)

\* The extremities a room may have before the call.
OldLeaves == {1, 2, 3}

\* The event that becomes an extremity.
NewLeaf == 4

\* The calls followed: the room's extremities before, and the new ones, which
\* are the new event and the old ones it does not reference.
ExtremityWrites ==
    {[pc |-> "remove", old |-> old, new |-> (old \ prev) \cup {NewLeaf},
      table |-> old, seen |-> <<>>] :
        old \in SUBSET OldLeaves \ {{}}, prev \in SUBSET OldLeaves}

InitExtremityWrite ==
    /\ MainInit
    /\ ca = PduCountMin /\ cb = PduCountMin /\ cc = PduCountMin
    /\ cres = NoCmp
    /\ bf = NoBackfillCall
    /\ replaced = EmptyMap
    /\ aps = NoAppserviceLoop
    /\ cr = NoCreateCall
    /\ fd = NoDispatch
    /\ sx \in ExtremityWrites
    /\ ua = NoUiaa /\ rm = NoReadMarker

\* `for (key, _) in scan_prefix(prefix) { remove(&key)? }`: one key of the
\* room goes; after the last one the inserts begin.
ExtremityRemove ==
    /\ sx.pc = "remove"
    /\ \E key \in sx.table :
          sx' = [sx EXCEPT !.table = @ \ {key},
                           !.pc = IF sx.table = {key} THEN "insert" ELSE "remove"]
    /\ UNCHANGED <<mainVars, cmpVars, extVars, bf, replaced, tokenids, aps, cr, fd, ua, rm>>

\* `for event_id in event_ids { insert(&key, ..)? }`: one key is written;
\* after the last one, Ok(()).
ExtremityInsert ==
    /\ sx.pc = "insert"
    /\ \E key \in sx.new \ sx.table :
          sx' = [sx EXCEPT !.table = @ \cup {key},
                           !.pc = IF sx.new \ sx.table = {key} THEN "done" ELSE "insert"]
    /\ UNCHANGED <<mainVars, cmpVars, extVars, bf, replaced, tokenids, aps, cr, fd, ua, rm>>

\* get_forward_extremities by a reader that holds no gate: scan_prefix over
\* the table as it is at that moment.
GetForwardExtremities ==
    /\ sx.pc \in {"remove", "insert", "done"}
    /\ sx' = [sx EXCEPT !.seen = <<sx.table>>]
    /\ UNCHANGED <<mainVars, cmpVars, extVars, bf, replaced, tokenids, aps, cr, fd, ua, rm>>

NextExtremityWrite ==
    \/ ExtremityRemove
    \/ ExtremityInsert
    \/ GetForwardExtremities

\* One set_forward_extremities call and the reads that fall into it.
SpecExtremityWrite == InitExtremityWrite /\ [][NextExtremityWrite]_vars

(* --------------------------- uiaa: try_auth ----------------------------- *)

\* The sessions one user and device may have stored at a time.
MaxSessions == 2

SessionIds == 1..MaxSessions

\* auth.session() is None.
NoSession == 0

\* A session id the store does not know.
UnknownSession == MaxSessions + 1

\* The user whose request is being authenticated: the `user_id` argument.
SessionOwner == UserIdString("alice")

\* The flows a route may ask for.
FlowSets == {{{"password"}}, {{"password", "dummy"}}, {{"registration_token"}, {"dummy", "password"}}}

\* hash::password
Hash(password) == <<"argon2", password>>

\* hash::verify_password(password, &hash).is_ok()
VerifyPassword(password, hash) == hash = Hash(password)

\* users.password_hash: alice and mallory have a password, ghost has none
\* (an account without a password, or no account).
PasswordHash(user_id) ==
    IF user_id = UserIdString("alice") THEN <<Hash("pa")>>
    ELSE IF user_id = UserIdString("mallory") THEN <<Hash("pm")>>
    ELSE <<>>

\* UserId::parse_with_server_name(username, server_name): a full user id is
\* taken as it is, a localpart is completed with the local server.
ParseWithServerName(username) ==
    IF ParsesAsUserId(username) THEN username ELSE UserIdString(username[1])

\* config.registration_token
RegistrationToken == "secret"

\* str::trim
Trim(token) == IF token = " secret " THEN "secret" ELSE token

\* What a client may send as auth: passwords under an identifier that is a
\* user id or a localpart, or of another kind (a third-party id); tokens;
\* the dummy stage; and a type try_auth does not support.
AuthDatas ==
    [type : {"password"},
     identifier : {LocalpartString("alice"), UserIdString("alice"),
                   LocalpartString("mallory"), LocalpartString("ghost"), <<"thirdparty">>},
     password : {"pa", "pm", "wrong"}, token : {"none"}]
    \cup [type : {"registration_token"}, identifier : {NoKey}, password : {"none"},
          token : {"secret", " secret ", "wrong"}]
    \cup [type : {"dummy", "other"}, identifier : {NoKey}, password : {"none"},
          token : {"none"}]

\* `Some(UserIdentifier::UserIdOrLocalpart(username)) = identifier`
IsUserIdOrLocalpart(identifier) == identifier \notin {NoKey, <<"thirdparty">>}

\* The password stage checked against the session's owner instead.
PasswordOfOwnerChecked(auth) ==
    /\ ParseWithServerName(auth.identifier) = SessionOwner
    /\ PasswordHash(SessionOwner) # <<>>
    /\ VerifyPassword(auth.password, PasswordHash(SessionOwner)[1])

\* "Check if password is correct": the hash looked up is that of the user
\* the identifier names; without a stored hash nothing is verified.
PasswordAccepted(auth) ==
    LET user_id == ParseWithServerName(auth.identifier)
        hash == PasswordHash(user_id)
    IN  hash = <<>> \/ VerifyPassword(auth.password, hash[1])

\* The `match auth`: "err" for an identifier that is not recognized,
\* "rejected" for a wrong password or token, else the completed list with
\* the stage pushed (or as it was, for a type that is not supported).
MatchAuth(auth, completed) ==
    CASE auth.type = "password" ->
            IF ~IsUserIdOrLocalpart(auth.identifier) THEN [status |-> "err", completed |-> completed]
            ELSE IF ~PasswordAccepted(auth) THEN [status |-> "rejected", completed |-> completed]
            ELSE [status |-> "pushed", completed |-> completed \cup {"password"}]
      [] auth.type = "registration_token" ->
            IF Trim(auth.token) = RegistrationToken
            THEN [status |-> "pushed", completed |-> completed \cup {"registration_token"}]
            ELSE [status |-> "rejected", completed |-> completed]
      [] auth.type = "dummy" -> [status |-> "pushed", completed |-> completed \cup {"dummy"}]
      [] OTHER -> [status |-> "ignored", completed |-> completed]

\* A flow counts as soon as one of its stages is completed.
SomeStageCompleted(flows, completed) == \E flow \in flows : flow \cap completed # {}

\* "Check if a flow now succeeds": some flow has all its stages completed.
FlowSucceeds(flows, completed) == \E flow \in flows : flow \subseteq completed

\* db.update_uiaa_session(.., Some(&uiaainfo)) and (.., None)
UpdateUiaaSession(sessions, session, completed) ==
    IF completed = <<>> THEN [id \in DOMAIN sessions \ {session} |-> sessions[id]]
    ELSE [id \in DOMAIN sessions \cup {session} |->
             IF id = session THEN completed[1] ELSE sessions[id]]

\* No auth data.
NoAuthData == [type |-> "none", identifier |-> NoKey, password |-> "none", token |-> "none"]

\* No try_auth call yet.
NoTryAuth ==
    [ret |-> "none", session |-> NoSession, completed |-> {}, auth_error |-> FALSE,
     status |-> "none", before |-> EmptyMap, proved |-> FALSE, auth |-> NoAuthData]

\* The state a route starts from: its flows, no session stored.
UiaaStates ==
    [pc : {"ready"}, flows : FlowSets, sessions : {EmptyMap}, proved : {{}},
     last : {NoTryAuth}]

InitUiaa ==
    /\ MainInit
    /\ ca = PduCountMin /\ cb = PduCountMin /\ cc = PduCountMin
    /\ cres = NoCmp
    /\ bf = NoBackfillCall
    /\ replaced = EmptyMap
    /\ aps = NoAppserviceLoop /\ cr = NoCreateCall /\ fd = NoDispatch
    /\ sx = NoExtremityWrite /\ rm = NoReadMarker
    /\ ua \in UiaaStates

\* try_auth called with a session the store does not have:
\* get_uiaa_session fails and the error is returned.
TryAuthUnknownSession ==
    /\ ua.pc = "ready"
    /\ \E session \in (SessionIds \cup {UnknownSession}) \ DOMAIN ua.sessions :
          ua' = [ua EXCEPT !.last = [NoTryAuth EXCEPT !.ret = "err", !.session = session,
                                                      !.before = ua.sessions]]
    /\ UNCHANGED <<mainVars, cmpVars, extVars, bf, replaced, tokenids, aps, cr, fd, sx, rm>>

\* try_auth: the session is loaded, or a new one made from the uiaainfo the
\* route passed; the auth data is matched; the flows are checked; the
\* session is stored or removed.
TryAuth ==
    /\ ua.pc = "ready"
    /\ \E auth \in AuthDatas, given \in DOMAIN ua.sessions \cup {NoSession},
          random \in (SessionIds \ DOMAIN ua.sessions) \cup {NoSession} :
          /\ (given = NoSession) = (random # NoSession)
          /\ LET session == IF given = NoSession THEN random ELSE given
                 loaded == IF given = NoSession THEN {} ELSE ua.sessions[given]
                 m == MatchAuth(auth, loaded)
                 completed == FlowSucceeds(ua.flows, m.completed)
                 proved == (ua.proved \cap DOMAIN ua.sessions)
                              \cup (IF PasswordOfOwnerChecked(auth) THEN {session} ELSE {})
                 result == [NoTryAuth EXCEPT !.session = session, !.status = m.status,
                                             !.auth = auth,
                                             !.completed = m.completed,
                                             !.before = ua.sessions,
                                             !.proved = session \in proved]
             IN  IF m.status = "err"
                 THEN ua' = [ua EXCEPT !.last = [result EXCEPT !.ret = "err"]]
                 ELSE IF m.status = "rejected"
                 THEN ua' = [ua EXCEPT !.last = [result EXCEPT !.ret = "false",
                                                               !.auth_error = TRUE]]
                 ELSE IF ~completed
                 THEN ua' = [ua EXCEPT
                               !.sessions = UpdateUiaaSession(@, session, <<m.completed>>),
                               !.proved = proved,
                               !.last = [result EXCEPT !.ret = "false"]]
                 ELSE ua' = [ua EXCEPT
                               !.sessions = UpdateUiaaSession(@, session, <<>>),
                               !.proved = proved \ {session},
                               !.last = [result EXCEPT !.ret = "true"]]
    /\ UNCHANGED <<mainVars, cmpVars, extVars, bf, replaced, tokenids, aps, cr, fd, sx, rm>>

NextUiaa ==
    \/ TryAuth
    \/ TryAuthUnknownSession

\* The try_auth calls of one user and device.
SpecUiaa == InitUiaa /\ [][NextUiaa]_vars

\* The completed list the last call started from.
LoadedCompleted ==
    IF ua.last.session \in DOMAIN ua.last.before THEN ua.last.before[ua.last.session] ELSE {}

\* The last call's password or registration-token check failed.
CheckFailed ==
    \/ /\ ua.last.auth.type = "password"
       /\ IsUserIdOrLocalpart(ua.last.auth.identifier)
       /\ ~PasswordAccepted(ua.last.auth)
    \/ /\ ua.last.auth.type = "registration_token"
       /\ Trim(ua.last.auth.token) # RegistrationToken

\* The sessions other than the last call's are as they were.
OtherSessionsKept ==
    \A id \in SessionIds \ {ua.last.session} :
        /\ (id \in DOMAIN ua.sessions) = (id \in DOMAIN ua.last.before)
        /\ id \in DOMAIN ua.sessions => ua.sessions[id] = ua.last.before[id]

\* C38: try_auth returns true exactly when, with the stage of this call
\* recorded, some flow has all of its stages in the completed list; on
\* success the stored session is removed; otherwise the session is stored
\* with the updated list and false is returned; a failed password or
\* registration-token check returns false with an auth error, adds no stage
\* and leaves the store as it was.
C38_TryAuthResult ==
    ua.last.auth # NoAuthData =>
        /\ (ua.last.ret = "true") =
              (\E flow \in ua.flows : \A stage \in flow : stage \in ua.last.completed)
        /\ ua.last.ret = "true" =>
              /\ ua.last.session \notin DOMAIN ua.sessions
              /\ OtherSessionsKept
        /\ (ua.last.ret = "false" /\ ~CheckFailed) =>
              /\ ua.last.session \in DOMAIN ua.sessions
              /\ ua.sessions[ua.last.session] = ua.last.completed
              /\ ~ua.last.auth_error
              /\ OtherSessionsKept
        /\ CheckFailed =>
              /\ ua.last.ret = "false"
              /\ ua.last.auth_error
              /\ ua.last.completed = LoadedCompleted
              /\ ua.sessions = ua.last.before

\* A second stage completes a flow of a stored session while another
\* session stays stored.
C38_Witness ==
    /\ ua.last.ret = "true"
    /\ ua.last.session \in DOMAIN ua.last.before
    /\ ua.last.completed = {"password", "dummy"}
    /\ DOMAIN ua.sessions # {}

\* C39: the password stage is in a completed list only when the password of
\* the session's owner was presented for that session and verified against
\* the owner's stored hash.
C39_PasswordStageNeedsOwnersPassword ==
    /\ \A id \in DOMAIN ua.sessions : "password" \in ua.sessions[id] => id \in ua.proved
    /\ "password" \in ua.last.completed => ua.last.proved

(* ------------------- read markers: the client routes ------------------- *)

\* The event ids a request may name: 1 and 2 are at live positions of the
\* timeline, 3 is at a backfilled position, 4 is not known to the server.
RequestEvents == 1..4

\* timeline.get_pdu(event): Some for the events the server has.
GetPdu(e) == e \in 1..3

\* timeline.get_pdu_count(event)
GetPduCount(e) ==
    IF e \in 1..2 THEN <<Normal(e)>> ELSE IF e = 3 THEN <<Backfilled(1)>> ELSE <<>>

\* The read-marker state of the sender in the room: nothing read yet.
NoMarkers == [fully_read |-> <<>>, private_read |-> <<>>, read_receipt |-> <<>>]

\* account_data.update(room, user, FullyRead, event)
AccountDataUpdate(st, e) == [st EXCEPT !.fully_read = <<e>>]

\* read_receipt.private_read_set(room, user, get_or_create_shorteventid(event))
PrivateReadSetOf(st, e) == [st EXCEPT !.private_read = <<ShortEventId(e)>>]

\* read_receipt.readreceipt_update, made only if
\* allow_outgoing_public_read_receipts
ReadreceiptUpdate(st, e, allow) == IF allow THEN [st EXCEPT !.read_receipt = <<e>>] ELSE st

\* The private-receipt check: the event must exist and be at a live position.
PrivateReceiptRejected(e) ==
    \/ ~GetPdu(e)
    \/ GetPduCount(e) = <<>>
    \/ GetPduCount(e)[1].kind = "Backfilled"

\* An Option<OwnedEventId> of a request: None or Some(event).
OptionalEvents == {<<>>} \cup {<<e>> : e \in RequestEvents}

\* The bodies of set_read_marker: each field may be absent.
SetReadMarkerBodies ==
    [fully_read : OptionalEvents, private_read_receipt : OptionalEvents,
     read_receipt : OptionalEvents]

\* set_read_marker_route run on the markers `st`: the fields are handled in
\* the order fully_read, private_read_receipt, read_receipt, and an error
\* returns at once with what was written before it.
SetReadMarker(st, body, allow) ==
    LET s1 == IF body.fully_read # <<>> THEN AccountDataUpdate(st, body.fully_read[1]) ELSE st
        s2 == IF body.private_read_receipt # <<>>
              THEN PrivateReadSetOf(s1, body.private_read_receipt[1]) ELSE s1
        s3 == IF body.read_receipt # <<>>
              THEN PrivateReadSetOf(ReadreceiptUpdate(s2, body.read_receipt[1], allow),
                                    body.read_receipt[1])
              ELSE s2
    IN  IF body.private_read_receipt # <<>>
           /\ PrivateReceiptRejected(body.private_read_receipt[1])
        THEN [ret |-> "err", state |-> s1]
        ELSE IF body.read_receipt # <<>> /\ ~GetPdu(body.read_receipt[1])
        THEN [ret |-> "err", state |-> s2]
        ELSE [ret |-> "ok", state |-> s3]

\* create_receipt_route run on the markers `st`: one receipt type, checked
\* before anything is written.
CreateReceipt(st, type, e, allow) ==
    CASE type = "FullyRead" -> [ret |-> "ok", state |-> AccountDataUpdate(st, e)]
      [] type = "Read" ->
            IF ~GetPdu(e) THEN [ret |-> "err", state |-> st]
            ELSE [ret |-> "ok", state |-> PrivateReadSetOf(ReadreceiptUpdate(st, e, allow), e)]
      [] type = "ReadPrivate" ->
            IF GetPduCount(e) = <<>> \/ GetPduCount(e)[1].kind = "Backfilled"
            THEN [ret |-> "err", state |-> st]
            ELSE [ret |-> "ok", state |-> PrivateReadSetOf(st, e)]
      [] OTHER -> [ret |-> "err", state |-> st]

InitReadMarkerRoutes ==
    /\ MainInit
    /\ ca = PduCountMin /\ cb = PduCountMin /\ cc = PduCountMin
    /\ cres = NoCmp
    /\ bf = NoBackfillCall
    /\ replaced = EmptyMap
    /\ aps = NoAppserviceLoop /\ cr = NoCreateCall /\ fd = NoDispatch
    /\ sx = NoExtremityWrite /\ ua = NoUiaa
    /\ rm \in [pc : {"ready"}, allow : BOOLEAN, state : {NoMarkers},
                last : {[route |-> "none", ret |-> "none", before |-> NoMarkers]}]

\* One set_read_marker request of the user.
SetReadMarkerRoute ==
    /\ rm.pc = "ready"
    /\ \E body \in SetReadMarkerBodies :
          LET out == SetReadMarker(rm.state, body, rm.allow)
          IN  rm' = [rm EXCEPT !.state = out.state,
                               !.last = [route |-> "set_read_marker", ret |-> out.ret,
                                         before |-> rm.state]]
    /\ UNCHANGED <<mainVars, cmpVars, extVars, bf, replaced, tokenids, aps, cr, fd, sx, ua>>

\* One create_receipt request of the user.
CreateReceiptRoute ==
    /\ rm.pc = "ready"
    /\ \E type \in {"FullyRead", "Read", "ReadPrivate", "other"}, e \in RequestEvents :
          LET out == CreateReceipt(rm.state, type, e, rm.allow)
          IN  rm' = [rm EXCEPT !.state = out.state,
                               !.last = [route |-> "create_receipt", ret |-> out.ret,
                                         before |-> rm.state]]
    /\ UNCHANGED <<mainVars, cmpVars, extVars, bf, replaced, tokenids, aps, cr, fd, sx, ua>>

NextReadMarkerRoutes ==
    \/ SetReadMarkerRoute
    \/ CreateReceiptRoute

\* The read-marker requests of one user in one room.
SpecReadMarkerRoutes == InitReadMarkerRoutes /\ [][NextReadMarkerRoutes]_vars

\* C40: a rejected set_read_marker request leaves the fully-read account
\* data, the private read marker and the public read receipt of the user as
\* they were before the request.
C40_RejectedRequestWritesNothing ==
    (rm.last.route = "set_read_marker" /\ rm.last.ret = "err") => rm.state = rm.last.before

\* The same for create_receipt, whose arms check before they write.
CreateReceiptRejectedWritesNothing ==
    (rm.last.route = "create_receipt" /\ rm.last.ret = "err") => rm.state = rm.last.before

(* ------------- build_and_append_pdu: the federation dispatch ------------ *)

\* A user id on a server, as a string.
UserIdOn(localpart, server) == <<"@", localpart, ":", server>>

\* UserId::server_name
ServerNameOf(user_id) == user_id[4]

\* The events dispatched: a message, a state event of another type whose
\* state key happens to be a user id, and membership events for a local and
\* for remote targets.
DispatchPdus ==
    [kind : {"message"}, state_key : {NoKey}]
    \cup [kind : {"state"}, state_key : {UserIdOn("u3", "b")}]
    \cup [kind : {"member"},
          state_key : {UserIdOn("u1", LocalServer), UserIdOn("u3", "a"),
                       UserIdOn("u3", "b")}]

\* The membership event's target, when the state key parses as a user id.
InsertTarget(servers, pdu) ==
    IF pdu.kind = "member" /\ ParsesAsUserId(pdu.state_key)
    THEN servers \cup {ServerNameOf(pdu.state_key)}
    ELSE servers

\* The local server is left in the list.
KeepLocalServer(servers) == servers

\* servers.remove(services().globals.server_name())
RemoveLocalServer(servers) == servers \ {LocalServer}

\* The calls followed: what state_cache.room_servers answers once the event
\* is appended, and the event. The local server is among the room's servers
\* unless the event is about a local user, who may have been the last one.
DispatchCalls ==
    {c \in [pc : {"call"}, room_servers : SUBSET ServerNames, pdu : DispatchPdus,
            servers : {{}}, sent : {<<>>}] :
        \/ LocalServer \in c.room_servers
        \/ c.pdu.kind = "member" /\ ServerNameOf(c.pdu.state_key) = LocalServer}

InitDispatch ==
    /\ MainInit
    /\ ca = PduCountMin /\ cb = PduCountMin /\ cc = PduCountMin
    /\ cres = NoCmp
    /\ bf = NoBackfillCall
    /\ replaced = EmptyMap
    /\ aps = NoAppserviceLoop
    /\ cr = NoCreateCall
    /\ fd \in DispatchCalls
    /\ sx = NoExtremityWrite
    /\ ua = NoUiaa /\ rm = NoReadMarker

\* create_hash_and_sign_event, the admin room checks, the redaction check
\* or append_pdu fails: the error is returned and nothing is dispatched.
DispatchAppendFails ==
    /\ fd.pc = "call"
    /\ fd' = [fd EXCEPT !.pc = "failed"]
    /\ UNCHANGED <<mainVars, cmpVars, extVars, bf, replaced, tokenids, aps, cr, sx, ua, rm>>

\* The event is appended and the room state set; room_servers is collected.
DispatchRoomServers ==
    /\ fd.pc = "call"
    /\ fd' = [fd EXCEPT !.pc = "servers", !.servers = fd.room_servers]
    /\ UNCHANGED <<mainVars, cmpVars, extVars, bf, replaced, tokenids, aps, cr, sx, ua, rm>>

\* "In case we are kicking or banning a user, we need to inform their server"
DispatchMemberTarget ==
    /\ fd.pc = "servers"
    /\ fd' = [fd EXCEPT !.pc = "target", !.servers = InsertTarget(@, fd.pdu)]
    /\ UNCHANGED <<mainVars, cmpVars, extVars, bf, replaced, tokenids, aps, cr, sx, ua, rm>>

\* "Remove our server from the server list"
DispatchRemoveLocal ==
    /\ fd.pc = "target"
    /\ fd' = [fd EXCEPT !.pc = "local", !.servers = RemoveLocalServer(@)]
    /\ UNCHANGED <<mainVars, cmpVars, extVars, bf, replaced, tokenids, aps, cr, sx, ua, rm>>

\* sending.send_pdu_servers(servers, &pdu_id); Ok(pdu.event_id)
DispatchSend ==
    /\ fd.pc = "local"
    /\ fd' = [fd EXCEPT !.pc = "done", !.sent = <<fd.servers>>]
    /\ UNCHANGED <<mainVars, cmpVars, extVars, bf, replaced, tokenids, aps, cr, sx, ua, rm>>

NextDispatch ==
    \/ DispatchAppendFails
    \/ DispatchRoomServers
    \/ DispatchMemberTarget
    \/ DispatchRemoveLocal
    \/ DispatchSend

\* The tail of one build_and_append_pdu call.
SpecDispatch == InitDispatch /\ [][NextDispatch]_vars

(* ------------------------------ properties ------------------------------ *)

\* The position of a timeline event.
PositionOf(e) == PduCountOf(eventid_pduid[e])

\* The events of a room's timeline.
TimelineEvents(r) == {e \in DOMAIN eventid_pduid : pdus[e].room = r}

\* The events a commit path (append_pdu) put into a room's timeline.
LiveEvents(r) == {e \in TimelineEvents(r) : PositionOf(e).kind = "Normal"}

\* The latest of a room's live events.
LastLive(r) ==
    CHOOSE e \in LiveEvents(r) :
        \A o \in LiveEvents(r) \ {e} : PduCountLess(PositionOf(o), PositionOf(e))

\* The task is between entering build_and_append_pdu / append_incoming_pdu
\* and its return: inside the state-mutation critical section.
InCriticalSection(t) ==
    tk[t].op \in {"local", "incoming"} /\ tk[t].pc \in {"ap_lock", "ap_insert", "ap_fanout"}

\* The room's current state pointer is the snapshot derived from the events
\* up to and including e.
Reflects(r, e) ==
    roomid_shortstatehash[r] = FoldState(pdus, shorteventid_shortstatehash[e], e)

\* The causal ancestors of an event, through prev_events.
RECURSIVE Ancestors(_)
Ancestors(e) == pdus[e].prev \cup UNION {Ancestors(p) : p \in pdus[e].prev}

\* C1: for any room, a local append and an incoming append are never both
\* inside their critical section: a task inside it holds the room's state
\* gate, so two tasks inside it are in different rooms.
C1_StateGateExclusion ==
    /\ \A t \in Tasks : InCriticalSection(t) => stateGate[tk[t].room] = t
    /\ \A t, u \in Tasks :
          (t # u /\ InCriticalSection(t) /\ InCriticalSection(u)) => tk[t].room # tk[u].room

\* A local append is inside its critical section on a federated room while
\* another caller is waiting to append to the same room.
C1_Witness ==
    \E t, u \in Tasks :
        /\ t # u
        /\ InCriticalSection(t) /\ tk[t].op = "local"
        /\ tk[u].pc = "call" /\ tk[u].room = tk[t].room
        /\ tk[t].room \in FederatedRooms

\* C2 as stated: whenever the most recently appended event of a room is a
\* locally appended one and readable from the timeline, the room's current
\* state pointer is the snapshot derived from the events up to and including it.
C2_NoWindow ==
    \A r \in Rooms :
        (LiveEvents(r) # {} /\ pdus[LastLive(r)].via = "local") => Reflects(r, LastLive(r))

\* C2, amended: the pointer reflects the most recently appended local event
\* once the build_and_append_pdu call that appended it has run set_room_state
\* (it is no longer between append_pdu's insert and set_room_state); and at
\* every instant the events of the room's current state are in the timeline.
C2_AfterSetRoomState ==
    \A r \in Rooms :
        /\ (/\ LiveEvents(r) # {}
            /\ pdus[LastLive(r)].via = "local"
            /\ ~\E t \in Tasks : tk[t].pc = "ap_fanout" /\ tk[t].ev = LastLive(r))
           => Reflects(r, LastLive(r))
        /\ roomid_shortstatehash[r] \subseteq LiveEvents(r)

\* A local state event is the latest of its room's timeline, its call has
\* returned, and the room's current state holds it.
C2_Witness ==
    \E r \in Rooms :
        /\ LiveEvents(r) # {}
        /\ pdus[LastLive(r)].via = "local"
        /\ pdus[LastLive(r)].state_key # NoUser
        /\ \A t \in Tasks : tk[t].ev # LastLive(r)
        /\ LastLive(r) \in roomid_shortstatehash[r]

\* C3: on both commit paths the event's state is written before the event is
\* inserted: an event a commit path is working on, and every event a commit
\* path put into a timeline, has its event-to-state record.
C3_StateBeforeVisible ==
    /\ \A t \in Tasks :
          InCriticalSection(t) => tk[t].ev \in DOMAIN shorteventid_shortstatehash
    /\ \A r \in Rooms : \A e \in LiveEvents(r) : e \in DOMAIN shorteventid_shortstatehash

\* A timeline holds an event of each commit path while a further event has
\* its state recorded and is not yet inserted.
C3_Witness ==
    /\ \E r \in Rooms : \E e1, e2 \in LiveEvents(r) :
          pdus[e1].via = "local" /\ pdus[e2].via = "incoming"
    /\ \E t \in Tasks : tk[t].pc = "ap_insert"

\* C4: `<` on positions is a strict total order (exactly one of a < b, a = b,
\* b < a; transitive) in which every Normal is greater than every Backfilled,
\* Normal values go by n, Backfilled values in reverse, and
\* Backfilled(u64::MAX) < Normal(0).
C4_PositionOrder ==
    cres.done =>
        /\ (IF ca = cb THEN ~cres.ab /\ ~cres.ba ELSE cres.ab # cres.ba)
        /\ ((cres.ab /\ cres.bc) => cres.ac)
        /\ ((ca.kind = "Normal" /\ cb.kind = "Backfilled") => (cres.ba /\ ~cres.ab))
        /\ ((ca.kind = "Normal" /\ cb.kind = "Normal") => (cres.ab <=> ca.n < cb.n))
        /\ ((ca.kind = "Backfilled" /\ cb.kind = "Backfilled") => (cres.ab <=> cb.n < ca.n))
        /\ ((ca = Backfilled(U64Max) /\ cb = Normal(0)) => cres.ab)

\* The boundary was compared, in a chain Backfilled(u64::MAX) < Normal(0) <
\* Normal(1).
C4_Witness ==
    /\ cres.done
    /\ ca = Backfilled(U64Max) /\ cb = Normal(0) /\ cc = Normal(1)
    /\ cres.ab /\ cres.bc /\ cres.ac


\* What one step does to the live positions: a pdu id stored under a Normal
\* position is above every Normal position its room held, and in the
\* timeline reached no two events of a room share a position.
C5_Step ==
    /\ \A id \in DOMAIN pduid_pdu' \ DOMAIN pduid_pdu :
          PduCountOf(id).kind = "Normal" =>
              \A old \in RoomPduIds(RoomOfPduId(id)) :
                  PduCountOf(old).kind = "Normal" =>
                      PduCountLess(PduCountOf(old), PduCountOf(id))
    /\ \A e1, e2 \in DOMAIN eventid_pduid' :
          (e1 # e2 /\ pdus'[e1].room = pdus'[e2].room) =>
              PduCountOf(eventid_pduid'[e1]) # PduCountOf(eventid_pduid'[e2])

\* C5: under any interleaving of the appends of all rooms and of the other
\* takers of the global counter, each event append_pdu persists gets a Normal
\* position above every Normal position already in its room, and no two
\* events of a room share a position.
C5_NormalPositionsIncrease == [][C5_Step]_vars

\* A room holds two live events, and another taker of the counter (an event
\* of another room, or a backfilled one) got a count between theirs.
C5_Witness ==
    \E r \in Rooms : \E e1, e2 \in LiveEvents(r) : \E id \in DOMAIN pduid_pdu :
        /\ pduid_pdu[id] \notin LiveEvents(r)
        /\ PositionOf(e1).n < PduCountOf(id).n
        /\ PduCountOf(id).n < PositionOf(e2).n

\* What one step does to the backfilled positions: a pdu id stored under a
\* Backfilled position is below every position its room held, in the
\* store's key order and as positions.
C6_Step ==
    \A id \in DOMAIN pduid_pdu' \ DOMAIN pduid_pdu :
        PduCountOf(id).kind = "Backfilled" =>
            \A old \in RoomPduIds(RoomOfPduId(id)) :
                /\ KeyLess(id, old)
                /\ PduCountLess(PduCountOf(id), PduCountOf(old))

\* C6: whenever backfill_pdu prepends an event into a room, the event's
\* position is below the earliest position the room held, hence below every
\* position, Normal or Backfilled, already in the room.
C6_BackfillBelowEarliest == [][C6_Step]_vars

\* A room holds a live event and two backfilled ones: the second was
\* prepended below a Backfilled earliest position.
C6_Witness ==
    \E r \in Rooms :
        /\ LiveEvents(r) # {}
        /\ Cardinality(TimelineEvents(r) \ LiveEvents(r)) >= 2

\* C7 as stated: the events a backfill response brought are listed before
\* the event that was the earliest when the response was asked for, and none
\* of them is listed before another event the response brought that it names
\* as a prev event.
C7_BatchCausalOrder ==
    \A r \in Rooms : \A b \in TimelineEvents(r) :
        pdus[b].via = "backfill" =>
            /\ KeyLess(eventid_pduid[b], pdus[b].before)
            /\ \A a \in pdus[b].prev \cap TimelineEvents(r) :
                  pdus[a].via = "backfill" => KeyLess(eventid_pduid[a], eventid_pduid[b])

\* C8 as stated: an event that took the soft-fail branch is never in a
\* timeline, and its state record stays.
C8_SoftFailedHidden ==
    \A e \in softfailed :
        /\ e \notin DOMAIN eventid_pduid
        /\ e \in DOMAIN shorteventid_shortstatehash

\* C9: after any sequence of local, incoming and soft-failed appends, no
\* forward extremity of a room is a causal ancestor of another.
C9_ExtremitiesUnrelated ==
    \A r \in Rooms : \A a, b \in roomid_pduleaves[r] : a \notin Ancestors(b)

\* A room has two forward extremities, one of them with a prev event.
C9_Witness ==
    \E r \in Rooms :
        /\ Cardinality(roomid_pduleaves[r]) >= 2
        /\ \E e \in roomid_pduleaves[r] : pdus[e].prev # {}

\* C10: for every event append_pdu persisted, the sender is in neither the
\* notify nor the highlight list of the event, and no push job of the event
\* goes to the sender.
C10_SenderNotNotified ==
    \A r \in Rooms : \A e \in LiveEvents(r) :
        /\ pdus[e].sender \notin Notifies(e)
        /\ pdus[e].sender \notin Highlights(e)
        /\ <<eventid_pduid[e], pdus[e].sender>> \notin pushJobs

\* A membership event whose sender is an active local member of the room and
\* its own target was fanned out: the other member got a job.
C10_Witness ==
    \E r \in Rooms : \E e \in LiveEvents(r) :
        /\ pdus[e].sender \in ActiveLocalUsers(r)
        /\ pdus[e].kind = "member" /\ pdus[e].state_key = pdus[e].sender
        /\ <<eventid_pduid[e], "u1">> \in pushJobs
        /\ "u1" \in Notifies(e) /\ "u1" \in Highlights(e)

\* C11: a step never moves a stored event to another pdu id nor an event id
\* to another position, and a stored event that is in its redacted form
\* stays in that form: redacting it again changes nothing.
C11_Step ==
    /\ \A id \in DOMAIN pduid_json :
          /\ id \in DOMAIN pduid_json' /\ id \in DOMAIN pduid_pdu'
          /\ pduid_pdu'[id] = pduid_pdu[id]
          /\ pduid_json[id] = RedactContent(OriginalContent)
                 => pduid_json'[id] = pduid_json[id]
          /\ (id \in DOMAIN replaced' /\ replaced'[id] >= 1)
                 => pduid_json'[id] = RedactContent(OriginalContent)
    /\ \A e \in DOMAIN eventid_pduid :
          e \in DOMAIN eventid_pduid' /\ eventid_pduid'[e] = eventid_pduid[e]

C12_Step ==
    Len(pdus') = Len(pdus) + 1 =>
        LET pdu == pdus'[Len(pdus')]
            others == {m \in roomuserid_joined[AdminRoom] :
                          m # RemoteUser /\ m # pdu.state_key}
        IN  (/\ pdu.via = "local" /\ pdu.room = AdminRoom
             /\ pdu.kind = "member" /\ pdu.membership \in {"leave", "ban"})
            => /\ pdu.forbidden = "admin"
                     <=> (pdu.state_key = ServerUser \/ Cardinality(others) < 2)
               /\ pdu.forbidden = "none"
                     => \E t \in Tasks : tk'[t].pc = "ap_lock" /\ tk'[t].ev = Len(pdus')

C12_LastAdminGuard == [][C12_Step]_vars

\* With the service account and u1 joined, u1's leave was rejected; u2 then
\* joined, and the same leave was appended.
C12_Witness ==
    /\ Len(pdus) = 3
    /\ \A i \in 1..3 : pdus[i].room = AdminRoom /\ pdus[i].kind = "member"
    /\ pdus[1].state_key = "u1" /\ pdus[1].membership = "leave"
    /\ pdus[1].forbidden = "admin"
    /\ pdus[2].state_key = "u2" /\ pdus[2].membership = "join"
    /\ pdus[3].state_key = "u1" /\ pdus[3].membership = "leave"
    /\ pdus[3].forbidden = "none"
    /\ 3 \in DOMAIN eventid_pduid
    /\ roomuserid_joined[AdminRoom] = {ServerUser, "u2"}

\* C13: an event rejected by a guard of the administrative room has left
\* no trace: it is not in the timeline, not an extremity, not in the room's
\* state, has no state record and no short event id.
C13_GuardRejectsBeforeMutation ==
    \A e \in Events :
        pdus[e].forbidden = "admin" =>
            /\ e \notin DOMAIN eventid_pduid
            /\ e \notin roomid_pduleaves[pdus[e].room]
            /\ e \notin roomid_shortstatehash[pdus[e].room]
            /\ e \notin DOMAIN shorteventid_shortstatehash
            /\ e \notin eventid_shorteventid

\* C14: every event that was signed locally passed the auth check with
\* Ok(true), and a call that the auth check aborts leaves the timeline, the
\* state tables, the extremities, the short ids and the counter as they were
\* and adds no event.
C14_Step ==
    /\ \A e \in 1..Len(pdus') :
          pdus'[e].via = "local" => pdus'[e].auth_check = "true"
    /\ \A t \in Tasks :
          (tk[t].pc = "call" /\ tk'[t].pc = "forbidden")
          => UNCHANGED <<pdus, pduid_pdu, pduid_json, eventid_pduid,
                         eventid_shorteventid, shorteventid_shortstatehash,
                         roomid_shortstatehash, roomid_pduleaves, referenced,
                         counter>>

C14_AuthFailsClosed == [][C14_Step]_vars

\* A call into a room that has events was aborted by the auth check; its
\* caller still holds the state gate.
C14_Witness ==
    \E t \in Tasks :
        /\ tk[t].pc = "forbidden"
        /\ stateGate[tk[t].room] = t
        /\ LiveEvents(tk[t].room) # {}

\* C15: a local redaction whose sender may not redact the target when the
\* event is about to be appended is not in the timeline, is no extremity, has
\* no state record, is not in the room's state, and no task is appending
\* it.
C15_UnauthorizedRedactionRejected ==
    \A e \in Events :
        (pdus[e].kind = "redaction" /\ pdus[e].via = "local" /\ ~pdus[e].can_redact)
        => /\ pdus[e].forbidden = "redaction"
           /\ pdus[e].auth_check = "true"
           /\ e \notin DOMAIN eventid_pduid
           /\ e \notin roomid_pduleaves[pdus[e].room]
           /\ e \notin DOMAIN shorteventid_shortstatehash
           /\ e \notin roomid_shortstatehash[pdus[e].room]
           /\ \A t \in Tasks : tk[t].ev # e

\* A redaction that passed the auth check was refused at the re-check, and
\* its target is stored as it was.
C15_Witness ==
    \E e \in Events :
        /\ pdus[e].kind = "redaction" /\ ~pdus[e].can_redact
        /\ pdus[e].forbidden = "redaction"
        /\ pdus[e].redacts \in DOMAIN eventid_pduid
        /\ pduid_json[eventid_pduid[pdus[e].redacts]] = OriginalContent

\* backfill_pdu is waiting for fetch_required_signing_keys and
\* handle_incoming_pdu, which go to the network.
NetworkInFlight(t) == tk[t].pc = "bf_handle" /\ tk[t].ev \notin DOMAIN eventid_pduid

\* The task holds some room's state, insertion or federation gate.
HoldsGate(t) ==
    \E r \in Rooms : stateGate[r] = t \/ insertGate[r] = t \/ fedGate[r] = t

\* C16 as stated: a task that is about to send the backfill request, or that
\* waits for the signing keys and the handling of a backfilled event, holds
\* no gate.
C16_NoGateAcrossNetwork ==
    \A t \in Tasks : (tk[t].pc = "idle" \/ NetworkInFlight(t)) => ~HoldsGate(t)

\* C16, amended: the backfill request is sent with no gate held; while the
\* signing keys are fetched and the event is handled, the task holds the
\* room's federation gate and neither a state gate nor an insertion gate.
C16_OnlyFederationGateAcrossNetwork ==
    \A t \in Tasks :
        /\ tk[t].pc = "idle" => ~HoldsGate(t)
        /\ NetworkInFlight(t) =>
              /\ fedGate[tk[t].room] = t
              /\ \A r \in Rooms : stateGate[r] # t /\ insertGate[r] # t

\* A backfilled event is being fetched and handled under the federation gate
\* while another task appends to the same room.
C16_Witness ==
    \E t, u \in Tasks :
        /\ NetworkInFlight(t) /\ fedGate[tk[t].room] = t
        /\ tk[u].pc = "ap_insert" /\ tk[u].room = tk[t].room

\* The task is about to ask for the room's insertion gate.
WaitsForInsertGate(t) == tk[t].pc = "ap_lock" \/ NetworkInFlight(t)

\* C17 as stated: a backfill never finds the gate it needs held by an append
\* to the same room, nor an append by a backfill.
C17_NoContention ==
    \A t, u \in Tasks :
        ~(/\ WaitsForInsertGate(t)
          /\ insertGate[tk[t].room] = u
          /\ (tk[t].op = "backfill") # (tk[u].op = "backfill"))

\* C17, amended: a backfill never holds a state gate; the insert of a
\* backfill and the insert of an append hold the same insertion gate of
\* the room, so that two tasks inserting are in different rooms.
C17_BackfillSharesInsertGate ==
    /\ \A t \in Tasks : tk[t].op = "backfill" => \A r \in Rooms : stateGate[r] # t
    /\ \A t \in Tasks :
          tk[t].pc \in {"ap_insert", "bf_insert"} => insertGate[tk[t].room] = t
    /\ \A t, u \in Tasks :
          (/\ t # u
           /\ tk[t].pc \in {"ap_insert", "bf_insert"}
           /\ tk[u].pc \in {"ap_insert", "bf_insert"}) => tk[t].room # tk[u].room

\* A backfill holds the room's insertion gate while an append to the same
\* room, holding the state gate, is waiting for it.
C17_Witness ==
    \E t, u \in Tasks :
        /\ tk[t].pc = "bf_insert" /\ insertGate[tk[t].room] = t
        /\ tk[u].pc = "ap_lock" /\ tk[u].room = tk[t].room
        /\ stateGate[tk[u].room] = u

\* C18 as stated: a task whose append has reached the fan-out holds neither
\* the room's state gate nor its insertion gate.
C18_FanoutOutsideGates ==
    \A t \in Tasks :
        tk[t].pc = "ap_fanout" =>
            stateGate[tk[t].room] # t /\ insertGate[tk[t].room] # t

\* C18, amended: a task whose append has reached the fan-out has released
\* the room's insertion gate and still holds the room's state gate.
C18_FanoutAfterInsertGate ==
    \A t \in Tasks :
        tk[t].pc = "ap_fanout" =>
            /\ insertGate[tk[t].room] # t
            /\ stateGate[tk[t].room] = t
            /\ tk[t].ev \in DOMAIN eventid_pduid

\* An append is at its fan-out, with push recipients to evaluate and the
\* insertion gate free again, while another caller waits for the state gate
\* of the same room.
C18_Witness ==
    \E t, u \in Tasks :
        /\ tk[t].pc = "ap_fanout"
        /\ PushRecipients(PushTarget(tk[t].ev), pdus[tk[t].ev].sender) # {}
        /\ insertGate[tk[t].room] = NoTask
        /\ u # t /\ tk[u].pc = "call" /\ tk[u].room = tk[t].room

\* C19 as stated: the call returns at once exactly when the oldest stored
\* event's position is greater than or equal to the cutoff.
C19_NoopWhenOldestNotBelowCutoff ==
    bf.pc \notin {"none", "start"} =>
        (bf.pc = "noop" <=> (bf.first = bf.from \/ PduCountLess(bf.from, bf.first)))

\* C19, amended: the call returns at once, having asked no server and
\* applied nothing, exactly when the oldest stored event's position is
\* strictly below the cutoff; otherwise it goes on to its candidate servers.
C19_NoopWhenOldestBelowCutoff ==
    bf.pc \notin {"none", "start"} =>
        /\ bf.pc = "noop" <=> PduCountLess(bf.first, bf.from)
        /\ bf.pc = "noop" => bf.asked = <<>> /\ bf.applied = 0 /\ bf.servers = <<>>

\* Both outcomes for a live cutoff: the oldest event is a backfilled one and
\* the call has returned at once.
C19_Witness ==
    /\ bf.pc = "noop"
    /\ bf.first = Backfilled(1) /\ bf.from = Normal(0)
    /\ Servers(bf.users, bf.aliases, bf.trusted, bf.in_room) # <<>>

\* C20: the servers asked so far are the first ones of: the home servers of
\* the users above the default level, then the alias servers, then the
\* trusted servers, without the local server and the servers not in the
\* room; every server asked before the last one failed; at most one response
\* is applied, and after it no server is asked; the call gives up only when
\* every candidate has failed.
C20_ServersAskedInOrder ==
    LET Above(m) == m[2] > UsersDefault
        above == SelectSeq(bf.users, Above)
        Remote(x) == x # LocalServer /\ x \in bf.in_room
        expected == SelectSeq([i \in 1..Len(above) |-> above[i][1]]
                                  \o bf.aliases \o bf.trusted, Remote)
        n == Len(bf.asked)
    IN  bf.pc \in {"asking", "backfilled", "exhausted"} =>
            /\ n <= Len(expected)
            /\ bf.asked = SubSeq(expected, 1, n)
            /\ \A i \in 1..n : bf.asked[i] # LocalServer /\ bf.asked[i] \in bf.in_room
            /\ \A i \in 1..(n - 1) : bf.answers[bf.asked[i]] = "err"
            /\ bf.applied <= 1
            /\ bf.pc = "backfilled" <=> (n >= 1 /\ bf.answers[bf.asked[n]] = "ok")
            /\ bf.applied = 1 <=> bf.pc = "backfilled"
            /\ bf.pc = "exhausted" => n = Len(expected)

\* A moderator's server failed, the alias server answered and its response
\* was applied; the trusted server, also a candidate, was not asked.
C20_Witness ==
    /\ bf.pc = "backfilled"
    /\ Len(bf.asked) = 2 /\ bf.asked[1] # bf.asked[2]
    /\ bf.answers[bf.asked[1]] = "err"
    /\ Len(bf.servers) = 3
    /\ bf.users # <<>> /\ bf.aliases # <<>> /\ bf.trusted # <<>>
    /\ bf.applied = 1

\* The number of PDUs among the first n of a response that backfill_pdu
\* stored.
RECURSIVE StoredAmong(_, _)
StoredAmong(batch, n) ==
    IF n = 0 THEN 0
    ELSE StoredAmong(batch, n - 1) + (IF batch[n] = "stored" THEN 1 ELSE 0)

\* C21: a call that ran out of candidate servers (or had none) returns Ok
\* having stored nothing and applied no response; while a response is being
\* applied every PDU handled so far that backfill_pdu accepted is stored,
\* whatever failed before it, the call never fails, and it returns Ok only
\* after every PDU of the response was handled.
C21_BackfillFailuresNotFatal ==
    /\ bf.pc = "exhausted" =>
          /\ bf.result = "ok"
          /\ bf.stored = 0 /\ bf.applied = 0
          /\ \A i \in 1..Len(bf.asked) : bf.answers[bf.asked[i]] = "err"
    /\ bf.pc = "backfilled" =>
          /\ bf.result # "err"
          /\ bf.done <= Len(bf.batch)
          /\ bf.stored = StoredAmong(bf.batch, bf.done)
          /\ bf.result = "ok" => bf.done = Len(bf.batch)

\* The first server failed, the second answered two PDUs; backfill_pdu failed
\* on the first, the second was stored all the same, and the call returned Ok.
C21_Witness ==
    /\ bf.pc = "backfilled" /\ bf.result = "ok"
    /\ Len(bf.asked) = 2 /\ bf.answers[bf.asked[1]] = "err"
    /\ bf.batch = <<"err", "stored">>
    /\ bf.stored = 1

C22_Step ==
    /\ \A id1, id2 \in DOMAIN pduid_pdu' :
          pduid_pdu'[id1] = pduid_pdu'[id2] => id1 = id2
    /\ \A t \in Tasks :
          (tk[t].pc = "bf_handle" /\ tk[t].ev \in DOMAIN eventid_pduid /\ tk'[t] # tk[t]) =>
              /\ counter' = counter
              /\ pduid_pdu' = pduid_pdu /\ eventid_pduid' = eventid_pduid
              /\ pduid_json' = pduid_json
              /\ tk'[t].pc \in {"bf_pdu", "idle"}

\* C22: whatever the interleaving of backfill_pdu calls and however often an
\* event is delivered, no event is stored under two pdu ids; and a
\* backfill_pdu call that finds its event in the timeline returns Ok with the
\* counter and the timeline tables as they were.
C22_BackfilledOnce == [][C22_Step]_vars

\* While one call is still working through its response, another call holds
\* an event the first one has prepended, and has found it in the timeline.
C22_Witness ==
    \E t1, t2 \in Tasks :
        /\ t1 # t2
        /\ tk[t1].op = "backfill" /\ tk[t1].pc = "bf_pdu"
        /\ tk[t2].pc = "bf_handle" /\ tk[t2].ev \in DOMAIN eventid_pduid
        /\ pdus[tk[t2].ev].via = "backfill"
        /\ PositionOf(tk[t2].ev).kind = "Backfilled"

\* The number of send_pdu_appservice calls made for appservice id.
TimesSent(id) == Cardinality({i \in 1..Len(aps.sent) : aps.sent[i] = id})

\* C23: whichever conditions hold for it, an appservice is sent the event at
\* most once; and once the loop is over it was sent the event if it is in
\* the room or one of its namespaces matches.
C23_AtMostOneDelivery ==
    aps.pc \in {"loop", "done"} =>
        \A id \in DOMAIN aps.regs :
            /\ TimesSent(id) <= 1
            /\ (aps.pc = "done" /\ (aps.regs[id].in_room \/ NamespaceMatches(aps.regs[id], aps.pdu)))
                  => TimesSent(id) = 1

\* An appservice in the room whose namespaces match the event as well has
\* been sent it once.
C23_Witness ==
    /\ aps.pc = "done"
    /\ \E id \in DOMAIN aps.regs :
          /\ aps.regs[id].in_room
          /\ aps.regs[id].aliases_or_rooms
          /\ MatchingUsers(aps.regs[id], aps.pdu)
          /\ TimesSent(id) = 1

\* C24: once the loop is over, a membership event whose state key is the
\* user id of an appservice's sender_localpart has been sent to that
\* appservice, be the appservice in the room or not, match its namespaces or
\* not.
C24_ServiceUserTargetDelivered ==
    aps.pc = "done" =>
        \A id \in DOMAIN aps.regs :
            (/\ aps.pdu.kind = "member"
             /\ \E localpart \in {"bot", "u1"} :
                   /\ aps.regs[id].sender_localpart = LocalpartString(localpart)
                   /\ aps.pdu.state_key = UserIdString(localpart))
                => TimesSent(id) >= 1

\* C25 as stated: the JSON returned and persisted has no top-level event_id
\* for room versions from 3 on, and an origin equal to the server name for
\* every version.
C25_NoEventIdFromV3 ==
    cr.pc \in {"returned", "persisted"} =>
        /\ cr.room_version_id \notin {"V1", "V2"} => cr.pdu_json["event_id"] = Absent
        /\ cr.pc = "persisted" /\ cr.room_version_id \notin {"V1", "V2"}
              => cr.stored["event_id"] = Absent
        /\ cr.pdu_json["origin"] = LocalServer

\* C25, amended: the object that is hashed and signed has no top-level
\* event_id for room versions from 3 on (and the placeholder for 1 and 2);
\* the object returned and persisted has, for every room version, the
\* event_id of the signed event, and an origin equal to the server name.
C25_EventIdOnlyUnsigned ==
    /\ cr.pc \in {"signed", "returned", "persisted"} =>
          /\ cr.signed["event_id"] = Absent <=> cr.room_version_id \notin {"V1", "V2"}
          /\ cr.signed["origin"] = LocalServer
    /\ cr.pc \in {"returned", "persisted"} =>
          /\ cr.pdu_json["event_id"] = cr.event_id
          /\ cr.event_id = "$reference_hash"
          /\ cr.pdu_json["origin"] = LocalServer
    /\ cr.pc = "persisted" => cr.stored = cr.pdu_json

\* An event of a version 11 room has been written with its event_id and
\* its origin, after it was signed without event_id.
C25_Witness ==
    /\ cr.pc = "persisted" /\ cr.room_version_id = "V11"
    /\ cr.signed["event_id"] = Absent
    /\ cr.stored["event_id"] = "$reference_hash"
    /\ cr.stored["origin"] = LocalServer

\* The largest of the depths of the prev events of the call, 0 for none.
MaxPrevDepth ==
    LET ds == {cr.prev_depths[i] : i \in 1..Len(cr.prev_depths)}
    IN  IF ds = {} THEN 0 ELSE CHOOSE d \in ds : \A o \in ds : o <= d

RoomsWritten ==
    {r \in Rooms :
        \/ roomid_shortstatehash'[r] # roomid_shortstatehash[r]
        \/ roomid_pduleaves'[r] # roomid_pduleaves[r]
        \/ \E e \in eventid_shorteventid' \ eventid_shorteventid : pdus'[e].room = r}

C26_Step ==
    \A r \in RoomsWritten :
        \E t \in Tasks : stateGate[r] = t /\ tk'[t] # tk[t]

\* C26: every step that changes a room's short-id table, its state pointer
\* or its forward extremities is a step of the task that holds that room's
\* state gate.
C26_WritesUnderStateGate == [][C26_Step]_vars

\* The index entries there should be: one for each stored message whose
\* stored content has its body.
MessagesWithBody ==
    {<<RoomOfPduId(id), id, OriginalContent>> :
        id \in {i \in DOMAIN pduid_pdu :
                    pdus[pduid_pdu[i]].kind = "message" /\ HasBody(pduid_json[i])}}

\* C28: whenever no append, backfill or redaction is under way, the search
\* index holds exactly the entries of the stored messages whose stored
\* content still has its body.
C28_IndexMatchesBodies ==
    (\A t \in Tasks : tk[t].pc = "idle") => tokenids = MessagesWithBody

\* C29: when build_and_append_pdu has succeeded, a server is a destination
\* of the dispatch exactly if it is not the local server and is either in
\* the room or the home server of the target of a membership event; an
\* unsuccessful call dispatches nothing.
C29_DispatchDestinations ==
    /\ fd.pc = "done" =>
          /\ fd.sent # <<>>
          /\ \A s \in ServerNames :
                s \in fd.sent[1] <=>
                    /\ s # LocalServer
                    /\ \/ s \in fd.room_servers
                       \/ fd.pdu.kind = "member" /\ fd.pdu.state_key[4] = s
    /\ fd.pc \in {"call", "failed", "servers", "target", "local"} => fd.sent = <<>>

\* A membership event about a remote user whose server is not in the room
\* was dispatched, from a room the local server is in.
C29_Witness ==
    /\ fd.pc = "done"
    /\ fd.pdu.kind = "member"
    /\ fd.pdu.state_key[4] = "a"
    /\ fd.room_servers = {LocalServer, "b"}
    /\ fd.sent = <<{"a", "b"}>>

\* The pdu ids at which a step stores an event in the live timeline.
AppendedIds ==
    {id \in DOMAIN pduid_pdu' \ DOMAIN pduid_pdu : PduCountOf(id).kind = "Normal"}

\* C30: when append_pdu persists a PDU, the private read marker of its
\* sender in the room holds the count under which the PDU is stored, and
\* the sender's notification counters of the room are zero; the step is
\* taken by the task holding the room's insertion gate.
C30_Step ==
    \A id \in AppendedIds :
        LET e == pduid_pdu'[id]
            key == <<pdus[e].room, pdus[e].sender>>
        IN  /\ roomuserid_privateread'[key] = PduCountOf(id).n
            /\ notificationcount'[key] = 0 /\ highlightcount'[key] = 0
            /\ insertGate[pdus[e].room] # NoTask

C30_ReceiptAtPduPosition == [][C30_Step]_vars

\* C30, as the code has it: the marker holds a count taken in the same
\* critical section before the one the PDU is stored under, so it is
\* greater than every count given out before and smaller than the PDU's;
\* the counters are zero; the insertion gate is held.
C30_StepBefore ==
    \A id \in AppendedIds :
        LET e == pduid_pdu'[id]
            key == <<pdus[e].room, pdus[e].sender>>
        IN  /\ roomuserid_privateread'[key] > counter
            /\ roomuserid_privateread'[key] < PduCountOf(id).n
            /\ notificationcount'[key] = 0 /\ highlightcount'[key] = 0
            /\ insertGate[pdus[e].room] # NoTask

C30_ReceiptBeforePduPosition == [][C30_StepBefore]_vars

\* A stored live event whose sender's marker is two counts before it: the
\* marker's own last-update count lies in between.
C30_Witness ==
    \E id \in DOMAIN pduid_pdu :
        /\ PduCountOf(id).kind = "Normal"
        /\ roomuserid_privateread[<<pdus[pduid_pdu[id]].room, pdus[pduid_pdu[id]].sender>>]
              = PduCountOf(id).n - 2
        /\ notificationcount[<<pdus[pduid_pdu[id]].room, pdus[pduid_pdu[id]].sender>>] = 0

\* C31: every event of a room's current state snapshot is stored in that
\* room's timeline; in particular the state event a local append is still
\* inserting is not in the current snapshot.
C31_StateEventsStored ==
    /\ \A r \in Rooms : \A e \in roomid_shortstatehash[r] :
          e \in DOMAIN eventid_pduid /\ RoomOfPduId(eventid_pduid[e]) = r
    /\ \A t \in Tasks :
          tk[t].pc \in {"ap_lock", "ap_insert"} /\ tk[t].op = "local"
              => tk[t].ev \notin roomid_shortstatehash[tk[t].room]

\* A local state event is in the timeline and its call has not yet set the
\* room's state; and, later, a room's state holds a stored state event.
C31_Witness ==
    \/ \E t \in Tasks :
          /\ tk[t].pc = "ap_fanout" /\ tk[t].op = "local"
          /\ pdus[tk[t].ev].kind = "member"
          /\ tk[t].ev \in tk[t].statehashid
          /\ tk[t].ev \in DOMAIN eventid_pduid
          /\ tk[t].ev \notin roomid_shortstatehash[tk[t].room]
          /\ \E r \in Rooms : roomid_shortstatehash[r] # {}

\* The events a commit path wrote the state of and is no longer working on.
StateWrittenAndLeft ==
    {e \in DOMAIN shorteventid_shortstatehash :
        e \notin softfailed /\ \A t \in Tasks : tk[t].ev # e}

\* C32: no append call is returning an error for an event whose state it
\* has recorded, and every event whose state was recorded by a call that is
\* over (soft-failed events aside) is in the timeline.
C32_AppendCannotFail ==
    /\ \A t \in Tasks :
          tk[t].pc = "failed" => tk[t].ev \notin DOMAIN shorteventid_shortstatehash
    /\ \A e \in StateWrittenAndLeft : e \in DOMAIN eventid_pduid

\* C33: the prev_events of a local event are at most 20, and every forward
\* extremity the room had when the event was created is among them, so that
\* after the append every event that is no longer an extremity has been
\* marked as referenced.
C33_NoHeadLost ==
    /\ cr.pc \in {"created", "appended"} =>
          /\ Cardinality(cr.prev_events) <= PrevLimit
          /\ cr.leaves \subseteq cr.prev_events
    /\ cr.pc = "appended" => (cr.leaves \ cr.new_leaves) \subseteq cr.marked

\* C34: the step that soft-fails an event records its state, marks its
\* prev_events as referenced and sets the room's extremities to leaves the
\* event is not among; the counter, the timeline tables, the stored
\* contents, the read markers, the notification counters, the push jobs,
\* the search index, the members, the room's state and the insertion gates
\* are as before.
C34_Step ==
    \A e \in softfailed' \ softfailed :
        /\ e \in DOMAIN shorteventid_shortstatehash'
        /\ referenced' = referenced \cup pdus'[e].prev
        /\ roomid_pduleaves'[pdus'[e].room] =
              roomid_pduleaves[pdus'[e].room] \ pdus'[e].prev
        /\ \A r \in Rooms \ {pdus'[e].room} : roomid_pduleaves'[r] = roomid_pduleaves[r]
        /\ UNCHANGED <<counter, pduid_pdu, eventid_pduid, pduid_json,
                       roomuserid_privateread, notificationcount, highlightcount,
                       pushJobs, tokenids, replaced, roomuserid_joined,
                       roomid_shortstatehash, insertGate>>

C34_SoftFailFrame == [][C34_Step]_vars

\* An event was soft-failed in a room that has live events, read markers
\* and push jobs from earlier appends, and it took an extremity away.
C34_Witness ==
    \E e \in softfailed :
        /\ LiveEvents(pdus[e].room) # {}
        /\ pdus[e].prev # {}
        /\ e \notin DOMAIN eventid_pduid
        /\ e \notin roomid_pduleaves[pdus[e].room]
        /\ pushJobs # {}

\* C35: a room's insertion gate is held only by a task that is between the
\* lock and the write of the PDU record, in append_pdu or in backfill_pdu;
\* a task that is pushing, indexing, returning an error or doing anything
\* else holds no insertion gate.
C35_InsertGateOnlyAroundWrite ==
    \A r \in Rooms :
        insertGate[r] # NoTask =>
            /\ tk[insertGate[r]].pc \in {"ap_insert", "bf_insert"}
            /\ tk[insertGate[r]].room = r

\* An append failed inside the insertion gate and its error is on the way to
\* the caller, while another task holds the same room's insertion gate.
C35_Witness ==
    \E t \in Tasks :
        /\ tk[t].pc = "failed"
        /\ tk[t].ev \notin DOMAIN eventid_pduid
        /\ insertGate[tk[t].room] \notin {NoTask, t}

\* The gates a task holds, as <<kind, room>>.
GatesHeld(t) ==
    {<<"federation", r>> : r \in {x \in Rooms : fedGate[x] = t}}
        \cup {<<"state", r>> : r \in {x \in Rooms : stateGate[x] = t}}
        \cup {<<"insertion", r>> : r \in {x \in Rooms : insertGate[x] = t}}

\* A task takes a federation gate holding no gate, a state gate holding no
\* insertion gate, and an insertion gate holding no other insertion gate.
C36_Step ==
    \A t \in Tasks : \A r \in Rooms :
        /\ (fedGate'[r] = t /\ fedGate[r] # t) => GatesHeld(t) = {}
        /\ (stateGate'[r] = t /\ stateGate[r] # t) =>
              \A x \in Rooms : insertGate[x] # t /\ stateGate[x] # t
        /\ (insertGate'[r] = t /\ insertGate[r] # t) =>
              GatesHeld(t) \subseteq {<<"federation", r>>, <<"state", r>>}

\* While a task is inside an append or a backfill, some task can take a
\* step.
SomeTaskCanProceed ==
    (\E t \in Tasks : tk[t].pc # "idle") => \E t \in Tasks : ENABLED Proceed(t)

\* C36: the gates are taken federation or state first and insertion last,
\* all for the one room the task works on; while a task is inside an append
\* or a backfill some task can take a step; and every append and every
\* backfill that was started comes to its end, the task then holding no
\* gate.
C36_GatesOrderedAndReleased ==
    /\ [][C36_Step]_vars
    /\ []SomeTaskCanProceed
    /\ \A t \in Tasks : (tk[t].pc # "idle") ~> (tk[t].pc = "idle" /\ GatesHeld(t) = {})

\* A backfill holds the room's federation gate and waits for the insertion
\* gate, which an append holds together with the state gate.
C36_Witness ==
    \E t, u \in Tasks :
        /\ tk[t].pc = "bf_handle" /\ fedGate[tk[t].room] = t
        /\ tk[t].ev \notin DOMAIN eventid_pduid
        /\ tk[u].pc = "ap_insert" /\ tk[u].room = tk[t].room
        /\ insertGate[tk[u].room] = u /\ stateGate[tk[u].room] = u

\* C37: whatever a reader got from get_forward_extremities before, during
\* or after the call is the room's whole extremity set as it was before the
\* call or as it is after it.
C37_ReaderSeesWholeSet ==
    sx.pc # "none" => sx.seen \in {<<>>, <<sx.old>>, <<sx.new>>}

====
